---- MODULE Spec2Model ----
(***************************************************************************)
(* Model of the create-issue service of RON-DATADRIVEN/eos-roadmap: the    *)
(* CORS origin guard (normalizeOrigin, splitOriginCandidates,              *)
(* configureAllowedOrigins, isOriginAllowed, handleCORS) and the request   *)
(* handler built on it.                                                    *)
(*                                                                         *)
(* A Go string is a sequence of one-character strings, so trimming, case   *)
(* folding, splitting and URL parsing are computed character by character  *)
(* as the code computes them.                                              *)
(***************************************************************************)
EXTENDS Integers, Sequences, FiniteSets, TLC

(***************************************************************************)
(* strings package                                                         *)
(***************************************************************************)

\* unicode.IsSpace restricted to the characters of the model's alphabet.
IsSpace(c) == c \in {" ", "\t", "\n", "\r"}

RECURSIVE TrimLeftSpace(_)
TrimLeftSpace(s) ==
    IF s = <<>> THEN <<>>
    ELSE IF IsSpace(Head(s)) THEN TrimLeftSpace(Tail(s))
    ELSE s

RECURSIVE TrimRightSpace(_)
TrimRightSpace(s) ==
    IF s = <<>> THEN <<>>
    ELSE IF IsSpace(s[Len(s)]) THEN TrimRightSpace(SubSeq(s, 1, Len(s) - 1))
    ELSE s

\* strings.TrimSpace
TrimSpace(s) == TrimRightSpace(TrimLeftSpace(s))

UpperLetters ==
    <<"A","B","C","D","E","F","G","H","I","J","K","L","M",
      "N","O","P","Q","R","S","T","U","V","W","X","Y","Z">>

LowerLetters ==
    <<"a","b","c","d","e","f","g","h","i","j","k","l","m",
      "n","o","p","q","r","s","t","u","v","w","x","y","z">>

Digits == {"0","1","2","3","4","5","6","7","8","9"}

UpperSet == {UpperLetters[i] : i \in 1..Len(UpperLetters)}
LowerSet == {LowerLetters[i] : i \in 1..Len(LowerLetters)}

\* The lower-case letter of each upper-case letter.
LowerOf ==
    [c \in UpperSet |->
        LowerLetters[CHOOSE i \in 1..Len(UpperLetters) : UpperLetters[i] = c]]

IsUpper(c) == c \in UpperSet
IsLower(c) == c \in LowerSet
IsLetter(c) == IsUpper(c) \/ IsLower(c)

ToLowerChar(c) == IF IsUpper(c) THEN LowerOf[c] ELSE c

\* strings.ToLower
ToLower(s) == [i \in 1..Len(s) |-> ToLowerChar(s[i])]

\* strings.HasPrefix
HasPrefix(s, p) == Len(s) >= Len(p) /\ SubSeq(s, 1, Len(p)) = p

\* strings.Index of a single character, from position i on: 0 when absent
\* (Go returns -1).
RECURSIVE IndexCharFrom(_, _, _)
IndexCharFrom(s, c, i) ==
    IF i > Len(s) THEN 0
    ELSE IF s[i] = c THEN i
    ELSE IndexCharFrom(s, c, i + 1)

IndexChar(s, c) == IndexCharFrom(s, c, 1)

\* strings.LastIndex of a single character, from position i down: 0 when absent.
RECURSIVE LastIndexCharFrom(_, _, _)
LastIndexCharFrom(s, c, i) ==
    IF i < 1 THEN 0
    ELSE IF s[i] = c THEN i
    ELSE LastIndexCharFrom(s, c, i - 1)

LastIndexChar(s, c) == LastIndexCharFrom(s, c, Len(s))

\* strings.Join
RECURSIVE Join(_, _)
Join(parts, sep) ==
    IF parts = <<>> THEN <<>>
    ELSE IF Len(parts) = 1 THEN parts[1]
    ELSE parts[1] \o sep \o Join(Tail(parts), sep)

\* Mutant of IsCandidateSeparator: the semicolon separates nothing.
IsCandidateSeparatorNoSemicolon(c) == c \in {",", "\n", "\r", "\t"}

\* The separator predicate splitOriginCandidates hands to strings.FieldsFunc.
IsCandidateSeparator(c) == c \in {",", "\n", "\r", "\t", ";"}

\* strings.FieldsFunc(raw, IsCandidateSeparator): the maximal runs of
\* non-separator characters, in order; cur is the field being read.
RECURSIVE FieldsFrom(_, _)
FieldsFrom(s, cur) ==
    IF s = <<>> THEN (IF cur = <<>> THEN <<>> ELSE <<cur>>)
    ELSE IF IsCandidateSeparator(Head(s))
         THEN (IF cur = <<>> THEN <<>> ELSE <<cur>>) \o FieldsFrom(Tail(s), <<>>)
         ELSE FieldsFrom(Tail(s), Append(cur, Head(s)))

FieldsFunc(s) == FieldsFrom(s, <<>>)

\* The cleaning loop of splitOriginCandidates: trim, skip the empty ones.
RECURSIVE DropEmptyTrimmed(_)
KeepCandidate(candidate, rest) ==
    IF candidate = <<>>
    THEN DropEmptyTrimmed(rest)
    ELSE <<candidate>> \o DropEmptyTrimmed(rest)

DropEmptyTrimmed(fields) ==
    IF fields = <<>> THEN <<>>
    ELSE KeepCandidate(TrimSpace(Head(fields)), Tail(fields))

splitOriginCandidates(raw) ==
    IF TrimSpace(raw) = <<>> THEN <<>>
    ELSE DropEmptyTrimmed(FieldsFunc(raw))

(***************************************************************************)
(* net/url, as normalizeOrigin uses it.  The model's alphabet is letters,  *)
(* digits, space, tab, CR, LF and the characters . - : / * , ; so the      *)
(* branches of url.Parse for ? # @ % [ ] are never taken and are left out. *)
(***************************************************************************)

\* url.getScheme: the scan of the scheme up to the first colon.
RECURSIVE GetSchemeAt(_, _)
GetSchemeAt(raw, i) ==
    IF i > Len(raw) THEN [err |-> FALSE, scheme |-> <<>>, rest |-> raw]
    ELSE LET c == raw[i]
         IN  IF IsLetter(c) THEN GetSchemeAt(raw, i + 1)
             ELSE IF c \in Digits \cup {"+", "-", "."}
                  THEN (IF i = 1
                        THEN [err |-> FALSE, scheme |-> <<>>, rest |-> raw]
                        ELSE GetSchemeAt(raw, i + 1))
             ELSE IF c = ":"
                  THEN (IF i = 1
                        THEN [err |-> TRUE, scheme |-> <<>>, rest |-> <<>>]
                        ELSE [err |-> FALSE,
                              scheme |-> SubSeq(raw, 1, i - 1),
                              rest |-> SubSeq(raw, i + 1, Len(raw))])
             ELSE [err |-> FALSE, scheme |-> <<>>, rest |-> raw]

getScheme(raw) == GetSchemeAt(raw, 1)

\* url.validOptionalPort: "" or ":" followed by digits only.
validOptionalPort(port) ==
    \/ port = <<>>
    \/ /\ port[1] = ":"
       /\ \A i \in 2..Len(port) : port[i] \in Digits

\* url.shouldEscape(c, encodeHost): the characters a host may not hold raw.
shouldEscapeHost(c) ==
    ~ (IsLetter(c) \/ c \in Digits \/ c \in {"*", ",", ";", ":", "-", "."})

\* url.parseHost, with i the place of the last colon of the host.
parseHostAt(host, i) ==
    IF i # 0 /\ ~ validOptionalPort(SubSeq(host, i, Len(host)))
    THEN [err |-> TRUE, host |-> <<>>]
    ELSE IF \E k \in 1..Len(host) : shouldEscapeHost(host[k])
    THEN [err |-> TRUE, host |-> <<>>]
    ELSE [err |-> FALSE, host |-> host]

parseHost(host) == parseHostAt(host, LastIndexChar(host, ":"))

\* The results of url.Parse: an error, or the Scheme and Host of the URL.
parseError == [err |-> TRUE, Scheme |-> <<>>, Host |-> <<>>]
parsedURL(scheme, host) == [err |-> FALSE, Scheme |-> scheme, Host |-> host]

\* s up to, and without, position i; all of s when i is 0.
cutBefore(s, i) == IF i = 0 THEN s ELSE SubSeq(s, 1, i - 1)

\* url.parse after the authority has been cut out: the host of the URL.
withHost(scheme, ph) ==
    IF ph.err THEN parseError ELSE parsedURL(scheme, ph.host)

\* url.parse on what follows the scheme.
parseRest(scheme, rest) ==
    IF ~ HasPrefix(rest, <<"/">>) /\ scheme # <<>>
    THEN parsedURL(scheme, <<>>)
    ELSE IF /\ ~ HasPrefix(rest, <<"/">>)
            /\ IndexChar(cutBefore(rest, IndexChar(rest, "/")), ":") # 0
    THEN parseError
    ELSE IF /\ (scheme # <<>> \/ ~ HasPrefix(rest, <<"/", "/", "/">>))
            /\ HasPrefix(rest, <<"/", "/">>)
    THEN withHost(scheme,
             parseHost(cutBefore(SubSeq(rest, 3, Len(rest)),
                                 IndexChar(SubSeq(rest, 3, Len(rest)), "/"))))
    ELSE parsedURL(scheme, <<>>)

parseAfterScheme(gs) ==
    IF gs.err THEN parseError ELSE parseRest(ToLower(gs.scheme), gs.rest)

\* url.Parse: the error, and the Scheme and Host fields of the result.
urlParse(rawURL) ==
    IF \E i \in 1..Len(rawURL) : rawURL[i] \in {"\t", "\n", "\r"}
    THEN parseError
    ELSE IF rawURL = <<"*">>
    THEN parsedURL(<<>>, <<>>)
    ELSE parseAfterScheme(getScheme(rawURL))

\* url.splitHostPort, behind URL.Hostname and URL.Port, with colon the place
\* of the last colon.
splitHostPortAt(hostPort, colon) ==
    IF colon # 0 /\ validOptionalPort(SubSeq(hostPort, colon, Len(hostPort)))
    THEN [host |-> SubSeq(hostPort, 1, colon - 1),
          port |-> SubSeq(hostPort, colon + 1, Len(hostPort))]
    ELSE [host |-> hostPort, port |-> <<>>]

splitHostPort(hostPort) == splitHostPortAt(hostPort, LastIndexChar(hostPort, ":"))

Hostname(u) == splitHostPort(u.Host).host
Port(u) == splitHostPort(u.Host).port

\* Constant strings of normalizeOrigin.
StrHTTP == <<"h", "t", "t", "p">>
StrHTTPS == <<"h", "t", "t", "p", "s">>
Str80 == <<"8", "0">>
Str443 == <<"4", "4", "3">>
StrSchemeSep == <<":", "/", "/">>

\* The port test of normalizeOrigin: the port is written unless it is the
\* default port of the scheme.
keepsPort(scheme, port) ==
    /\ port # <<>>
    /\ ~ (scheme = StrHTTP /\ port = Str80)
    /\ ~ (scheme = StrHTTPS /\ port = Str443)

\* The last statements of normalizeOrigin: scheme://host[:port].
originOf(scheme, hostname, port) ==
    [err |-> FALSE,
     value |-> scheme \o StrSchemeSep \o
               (IF keepsPort(scheme, port)
                THEN hostname \o <<":">> \o port
                ELSE hostname)]

\* normalizeOrigin after url.Parse.
normalizeParsed(parsed) ==
    IF parsed.err THEN [err |-> TRUE, value |-> <<>>]
    ELSE IF parsed.Scheme = <<>> \/ parsed.Host = <<>>
    THEN [err |-> TRUE, value |-> <<>>]
    ELSE originOf(ToLower(parsed.Scheme), ToLower(Hostname(parsed)), Port(parsed))

normalizeOrigin(value) == normalizeParsed(urlParse(TrimSpace(value)))

(***************************************************************************)
(* Strings of the program and of the inputs                                *)
(***************************************************************************)

\* const defaultAllowedOrigin = "https://ron-datadriven.github.io"
defaultAllowedOrigin ==
    StrHTTPS \o StrSchemeSep \o
    <<"r","o","n","-","d","a","t","a","d","r","i","v","e","n",".",
      "g","i","t","h","u","b",".","i","o">>

StrStar == <<"*">>

\* Origins written in configuration and sent by clients.
OriginA == StrHTTPS \o StrSchemeSep \o <<"a", ".", "e", "x">>
\* The same origin in another spelling: upper case and the default port.
OriginAUpper443 ==
    <<"H","T","T","P","S">> \o StrSchemeSep \o <<"A", ".", "e", "x", ":">> \o Str443
OriginSubA == StrHTTPS \o StrSchemeSep \o <<"s", "u", "b", ".", "a", ".", "e", "x">>
OriginAPort == OriginA \o <<":", "8", "4", "4", "3">>
OriginB == StrHTTPS \o StrSchemeSep \o <<"b", ".", "e", "x">>
\* An origin followed by a path: url.Parse keeps only scheme and host.
OriginAPath == OriginA \o <<"/", "p">>
\* Malformed values, as in the tests: no scheme, no host, no colon.
NotAURL == <<"n", "o", "t", "-", "a", "-", "u", "r", "l">>
NoHost == StrHTTPS \o StrSchemeSep
HttpBad == StrHTTP \o <<"/", "/", "b", "a", "d">>

(***************************************************************************)
(* Package state of cmd/create-issue                                       *)
(***************************************************************************)
VARIABLES
    allowAnyOrigin,         \* var allowAnyOrigin bool
    allowedOrigin,          \* var allowedOrigin string (display string)
    allowedOriginEntries,   \* var allowedOriginEntries []originEntry
    call,                   \* the last configureAllowedOrigins call and its result
    response,               \* the last request handled and what was answered
    probe,                  \* a direct call of normalizeOrigin or
                            \* splitOriginCandidates: its input and its result
    server,                 \* the process started by main: what it read from
                            \* the environment, how far it got, and the
                            \* requests its handler goroutines are serving
    sync,                   \* a run of sync-modules: the project it reads,
                            \* its loop variables and the output file
    backend                 \* a cloudLoggingBackend: its mutex, its cached
                            \* token and the goroutines calling Log

vars == <<allowAnyOrigin, allowedOrigin, allowedOriginEntries, call, response,
         probe, server, sync, backend>>

\* type originEntry struct { raw, normalized string }
originEntry(raw, normalized) == [raw |-> raw, normalized |-> normalized]

\* The closure addOrigin of configureAllowedOrigins, on the variables it
\* captures: st.allowAny is the package flag, st.entries and st.seen its
\* locals.  addNormalized is its part after normalizeOrigin.
\* Mutant of addNormalized: duplicates are detected on the raw value.
addNormalizedSeenRaw(st, value, n) ==
    IF n.err THEN st
    ELSE IF \E i \in 1..Len(st.entries) : st.entries[i].raw = value THEN st
    ELSE [st EXCEPT !.entries = Append(@, originEntry(value, n.value)),
                    !.seen = @ \cup {n.value}]

\* Mutant of addNormalized: a malformed candidate drops what was accepted.
addNormalizedAbortOnError(st, value, n) ==
    IF n.err THEN [st EXCEPT !.entries = <<>>, !.seen = {}]
    ELSE IF n.value \in st.seen THEN st
    ELSE [st EXCEPT !.entries = Append(@, originEntry(value, n.value)),
                    !.seen = @ \cup {n.value}]

addNormalized(st, value, n) ==
    IF n.err THEN st
    ELSE IF n.value \in st.seen THEN st
    ELSE [st EXCEPT !.entries = Append(@, originEntry(value, n.value)),
                    !.seen = @ \cup {n.value}]

\* Mutant of addTrimmed: the wildcard counts only while no entry is accepted.
addTrimmedStarOnlyFirst(st, value) ==
    IF value = <<>> THEN st
    ELSE IF value = StrStar
    THEN (IF Len(st.entries) = 0 THEN [st EXCEPT !.allowAny = TRUE] ELSE st)
    ELSE addNormalized(st, value, normalizeOrigin(value))

\* addOrigin on the trimmed value.
addTrimmed(st, value) ==
    IF value = <<>> THEN st
    ELSE IF value = StrStar THEN [st EXCEPT !.allowAny = TRUE]
    ELSE addNormalized(st, value, normalizeOrigin(value))

addOrigin(st, rawValue) == addTrimmed(st, TrimSpace(rawValue))

\* for _, candidate := range candidates { addOrigin(candidate); if allowAnyOrigin { break } }
RECURSIVE addCandidates(_, _)
breakOnWildcard(next, rest) ==
    IF next.allowAny THEN next ELSE addCandidates(next, rest)

addCandidates(st, candidates) ==
    IF candidates = <<>> THEN st
    ELSE breakOnWildcard(addOrigin(st, Head(candidates)), Tail(candidates))

\* rawOrigins of the entries, for strings.Join.
rawOrigins(entries) == [i \in 1..Len(entries) |-> entries[i].raw]

\* The candidates of the fallback list, the built-in default when it is blank.
orDefault(candidates) ==
    IF Len(candidates) = 0
    THEN splitOriginCandidates(defaultAllowedOrigin)
    ELSE candidates

fallbackCandidates(fallback) == orDefault(splitOriginCandidates(fallback))

\* What a return of configureAllowedOrigins leaves: the flag, the display
\* string and the returned entries (<<>> is nil).
wildcardResult == [allowAny |-> TRUE, allowedOrigin |-> StrStar, entries |-> <<>>]

\* Mutant of afterForced: the display string joins the normalized origins.
afterForcedJoinsNormalized(st) ==
    IF st.allowAny THEN wildcardResult
    ELSE IF Len(st.entries) = 0
    THEN [allowAny |-> FALSE, allowedOrigin |-> <<>>, entries |-> <<>>]
    ELSE [allowAny |-> FALSE,
          allowedOrigin |->
              Join([i \in 1..Len(st.entries) |-> st.entries[i].normalized],
                   <<",">>),
          entries |-> st.entries]

\* The end of configureAllowedOrigins, after the forced default.
afterForced(st) ==
    IF st.allowAny THEN wildcardResult
    ELSE IF Len(st.entries) = 0
    THEN [allowAny |-> FALSE, allowedOrigin |-> <<>>, entries |-> <<>>]
    ELSE [allowAny |-> FALSE,
          allowedOrigin |-> Join(rawOrigins(st.entries), <<",">>),
          entries |-> st.entries]

\* Mutant of afterCurrent: no forced default when nothing was accepted.
afterCurrentNoForcedDefault(st) ==
    IF st.allowAny THEN wildcardResult ELSE afterForced(st)

\* Mutant of afterCurrent: the wildcard return hands back what was accepted.
afterCurrentKeepsEntries(st) ==
    IF st.allowAny THEN [wildcardResult EXCEPT !.entries = st.entries]
    ELSE IF Len(st.entries) = 0
    THEN afterForced(addCandidates(st, splitOriginCandidates(defaultAllowedOrigin)))
    ELSE afterForced(st)

\* configureAllowedOrigins after the candidates of ALLOWED_ORIGIN.
afterCurrent(st) ==
    IF st.allowAny THEN wildcardResult
    ELSE IF Len(st.entries) = 0
    THEN afterForced(addCandidates(st, splitOriginCandidates(defaultAllowedOrigin)))
    ELSE afterForced(st)

\* configureAllowedOrigins after the candidates of the fallback.
afterFallback(st, current) ==
    IF st.allowAny THEN wildcardResult
    ELSE afterCurrent(addCandidates(st, splitOriginCandidates(current)))

\* Mutant of configureAllowedOrigins: the fallback is used only when the
\* configured list yields no entry.
configureFallbackWhenEmpty(allowAny0, current, fallback) ==
    LET st == addCandidates([allowAny |-> allowAny0, entries |-> <<>>, seen |-> {}],
                            splitOriginCandidates(current))
    IN  IF st.allowAny THEN wildcardResult
        ELSE IF Len(st.entries) = 0
        THEN afterForced(addCandidates(st, fallbackCandidates(fallback)))
        ELSE afterForced(st)

\* Mutant of configureAllowedOrigins: the configured list is processed before
\* the fallback.
configureCurrentFirst(allowAny0, current, fallback) ==
    afterFallback(
        addCandidates([allowAny |-> allowAny0, entries |-> <<>>, seen |-> {}],
                      splitOriginCandidates(current)),
        Join(fallbackCandidates(fallback), <<",">>))

\* configureAllowedOrigins(current, fallback), called with the package flag
\* allowAnyOrigin equal to allowAny0 (the function never clears the flag).
configureAllowedOrigins(allowAny0, current, fallback) ==
    afterFallback(
        addCandidates([allowAny |-> allowAny0, entries |-> <<>>, seen |-> {}],
                      fallbackCandidates(fallback)),
        current)

\* Mutant of entryMatches: the origin is compared with the entries as written.
entryMatchesRaw(entries, normalizedOrigin) ==
    \E i \in 1..Len(entries) : entries[i].raw = normalizedOrigin

\* Mutant of entryMatches: an entry matches when it is a prefix of the origin.
entryMatchesPrefix(entries, normalizedOrigin) ==
    \E i \in 1..Len(entries) : HasPrefix(normalizedOrigin, entries[i].normalized)

\* The scan of the allow-list in isOriginAllowed.
entryMatches(entries, normalizedOrigin) ==
    \E i \in 1..Len(entries) : entries[i].normalized = normalizedOrigin

\* isOriginAllowed after normalizeOrigin.
matchNormalized(n) ==
    IF n.err THEN FALSE
    ELSE entryMatches(allowedOriginEntries, n.value)

\* Mutant of isOriginAllowed: the origin is normalized before the wildcard test.
isOriginAllowedNormalizeFirst(origin) ==
    IF normalizeOrigin(origin).err THEN FALSE
    ELSE IF allowAnyOrigin THEN TRUE
    ELSE IF Len(allowedOriginEntries) = 0 THEN FALSE
    ELSE matchNormalized(normalizeOrigin(origin))

\* Mutant of isOriginAllowed: an empty allow-list restricts nothing.
isOriginAllowedOpenWhenEmpty(origin) ==
    IF allowAnyOrigin THEN TRUE
    ELSE IF Len(allowedOriginEntries) = 0 THEN TRUE
    ELSE matchNormalized(normalizeOrigin(origin))

isOriginAllowed(origin) ==
    IF allowAnyOrigin THEN TRUE
    ELSE IF Len(allowedOriginEntries) = 0 THEN FALSE
    ELSE matchNormalized(normalizeOrigin(origin))

(***************************************************************************)
(* The request handler                                                     *)
(***************************************************************************)

\* net/http status codes the handler writes.
StatusOK == 200
StatusNoContent == 204
StatusBadRequest == 400
StatusForbidden == 403
StatusMethodNotAllowed == 405
StatusBadGateway == 502
StatusInternalServerError == 500

\* http.Header.Set on a header map (a function from header names to values).
SetHeader(h, k, v) == [x \in DOMAIN h \cup {k} |-> IF x = k THEN v ELSE h[x]]

\* The names of the CORS response headers handleCORS may set.
CORSHeaderNames ==
    {"Access-Control-Allow-Origin", "Vary", "Access-Control-Allow-Methods",
     "Access-Control-Allow-Headers", "Access-Control-Max-Age"}

NoBody ==
    [kind |-> "none", issueUrl |-> "", errorCode |-> "", message |-> <<>>,
     debugId |-> ""]

\* issueResponse with an apiError; the message is a sequence of text chunks
\* so that a formatted origin is part of it.
errorBody(code, message) ==
    [kind |-> "json", issueUrl |-> "", errorCode |-> code, message |-> message,
     debugId |-> ""]

\* loggingResponseWriter at the start of handleRequest: status 200, no header.
newResponseWriter == [status |-> StatusOK, header |-> <<>>, body |-> NoBody]

\* requestLogger as newRequestLogger fills it: status 0, no error code, no
\* template, the trimmed Origin header.
newRequestLogger(requestID, method, originHeader) ==
    [requestID |-> requestID, method |-> method,
     origin |-> TrimSpace(originHeader), templateID |-> "", status |-> 0,
     errorCode |-> ""]

\* The logEntry that logWithEntry hands to the backend.
logEntryOf(rl, stage, severity) ==
    [requestId |-> rl.requestID, stage |-> stage, severity |-> severity,
     method |-> rl.method, origin |-> rl.origin, templateId |-> rl.templateID,
     status |-> rl.status, errorCode |-> rl.errorCode]

\* One request in the handler, x: its response writer x.w, its logger x.rl,
\* the entries its backend received x.log, whether the write of the body to
\* the client succeeds, x.writeOK, and whether a write has failed,
\* x.writeFailed.
logWithEntry(x, stage, severity) ==
    [x EXCEPT !.log = Append(@, logEntryOf(x.rl, stage, severity))]

RecordStatus(x, status) == [x EXCEPT !.rl.status = status]

\* The codes recorded are literals without white space: TrimSpace keeps them.
RecordError(x, code) == [x EXCEPT !.rl.errorCode = code]

SetTemplate(x, templateID) == [x EXCEPT !.rl.templateID = templateID]

\* LogError after RecordError: a status still 0 becomes 500.
statusOrServerError(x) ==
    IF x.rl.status = 0 THEN RecordStatus(x, StatusInternalServerError) ELSE x

LogError(x, code) ==
    logWithEntry(statusOrServerError(RecordError(x, code)), "error", "ERROR")

Finish(x) == logWithEntry(x, "finish", "INFO")

\* loggingResponseWriter.WriteHeader
WriteHeader(x, code) == [x EXCEPT !.w.status = code]

\* json.NewEncoder(w).Encode(resp): the body is written, or the write fails
\* and the failure is logged.
encodeResponse(x, resp) ==
    IF x.writeOK
    THEN [x EXCEPT !.w.body = resp]
    ELSE LogError([x EXCEPT !.w.body = resp, !.writeFailed = TRUE],
                  "write_response_error")

\* The part of writeResponse that tells the logger the status and the code.
recordResponse(x, status, resp) ==
    IF resp.errorCode # ""
    THEN RecordError(RecordStatus(x, status), resp.errorCode)
    ELSE RecordStatus(x, status)

\* writeResponse after the logger was told: header, status, body.
sendResponse(x, status, resp) ==
    encodeResponse(
        WriteHeader([x EXCEPT !.w.header =
                         SetHeader(@, "Content-Type", "application/json")],
                    status),
        resp)

\* Mutant of writeResponse: the debugId of the body is left as the caller
\* gave it.
writeResponseKeepsDebugID(x, status, resp) ==
    sendResponse(recordResponse(x, status, resp), status, resp)

writeResponse(x, status, resp) ==
    sendResponse(recordResponse(x, status, resp), status,
                 [resp EXCEPT !.debugId =
                      IF @ = "" THEN x.rl.requestID ELSE @])

writeError(x, status, code, message) ==
    writeResponse(LogError(RecordStatus(x, status), code), status,
                  errorBody(code, message))

\* fmt.Sprintf("Origen no permitido: %s", origin)
denyMessage(origin) == <<"Origen no permitido: ">> \o origin

\* Mutant of denyOrigin: the refusal is reported as a server error.
denyOriginServerError(x, origin) ==
    writeError(x, 500, "internal_error", denyMessage(origin))

denyOrigin(x, origin) ==
    writeError(x, StatusForbidden, "forbidden_origin", denyMessage(origin))

\* Mutant of allowHeaders: the normalized origin is echoed, and Vary is
\* always set.
allowHeadersNormalized(h, origin) ==
    SetHeader(
      SetHeader(
        SetHeader(
          SetHeader(
            SetHeader(h, "Access-Control-Allow-Origin",
                      IF allowAnyOrigin THEN StrStar
                      ELSE normalizeOrigin(origin).value),
            "Vary", "Origin"),
          "Access-Control-Allow-Methods", "POST, OPTIONS"),
        "Access-Control-Allow-Headers", "Content-Type"),
      "Access-Control-Max-Age", "3600")

\* The CORS headers of an accepted request.
allowHeaders(h, origin) ==
    LET h1 == IF allowAnyOrigin
              THEN SetHeader(h, "Access-Control-Allow-Origin", StrStar)
              ELSE SetHeader(SetHeader(h, "Access-Control-Allow-Origin", origin),
                             "Vary", "Origin")
        h2 == SetHeader(h1, "Access-Control-Allow-Methods", "POST, OPTIONS")
        h3 == SetHeader(h2, "Access-Control-Allow-Headers", "Content-Type")
    IN  SetHeader(h3, "Access-Control-Max-Age", "3600")

\* handleCORS: ok is its return value, x the request after it, and
\* guardCalled whether it called isOriginAllowed.  origin is the trimmed header.
handleCORSTrimmed(x, origin) ==
    IF origin = <<>>
    THEN [ok |-> TRUE, x |-> x, guardCalled |-> FALSE]
    ELSE IF ~ isOriginAllowed(origin)
    THEN [ok |-> FALSE, x |-> denyOrigin(x, origin), guardCalled |-> TRUE]
    ELSE [ok |-> TRUE,
          x |-> [x EXCEPT !.w.header = allowHeaders(@, origin)],
          guardCalled |-> TRUE]

\* Mutant of handleCORS: the header is not trimmed.
handleCORSUntrimmed(x, originHeader) == handleCORSTrimmed(x, originHeader)

handleCORS(x, originHeader) == handleCORSTrimmed(x, TrimSpace(originHeader))

\* The templateId of the body of p: one of the templates map, or another.
templateIdOf(p) == IF p.templateOK THEN "feature" ELSE "unknown"

\* A call of issueCreator or projectAdder: x.github lists the calls made to
\* GitHub for the request.
callGitHub(x, fn) == [x EXCEPT !.github = Append(@, fn)]

\* Mutant of afterProjectAdder: a failure of projectAdder fails the request.
afterProjectAdderFailsRequest(x, p) ==
    IF ~ p.projectOK
    THEN writeError(LogError(x, "github_project_error"), StatusBadGateway,
                    "github_project_error",
                    <<"Issue creado pero no se pudo agregar al proyecto">>)
    ELSE writeResponse(x, StatusOK,
             [kind |-> "json", issueUrl |-> "issue.HTMLURL",
              errorCode |-> "", message |-> <<>>, debugId |-> ""])

\* handlePost after projectAdder has returned.
afterProjectAdder(x, p) ==
    IF ~ p.projectOK
    THEN writeResponse(LogError(x, "github_project_error"), StatusOK,
             [kind |-> "json", issueUrl |-> "issue.HTMLURL",
              errorCode |-> "github_project_error",
              message |-> <<"Issue creado pero no se pudo agregar al proyecto">>,
              debugId |-> ""])
    ELSE writeResponse(x, StatusOK,
             [kind |-> "json", issueUrl |-> "issue.HTMLURL",
              errorCode |-> "", message |-> <<>>, debugId |-> ""])

\* Mutant of afterIssueCreator: projectAdder is called whatever issueCreator
\* returned.
afterIssueCreatorAddsAnyway(x, p) ==
    IF ~ p.issueOK
    THEN writeError(LogError(callGitHub(x, "projectAdder"),
                             "github_issue_error"),
                    StatusBadGateway, "github_issue_error",
                    <<"No se pudo crear el issue en GitHub">>)
    ELSE afterProjectAdder(callGitHub(x, "projectAdder"), p)

\* handlePost after issueCreator has returned.
afterIssueCreator(x, p) ==
    IF ~ p.issueOK
    THEN writeError(LogError(x, "github_issue_error"), StatusBadGateway,
                    "github_issue_error",
                    <<"No se pudo crear el issue en GitHub">>)
    ELSE afterProjectAdder(callGitHub(x, "projectAdder"), p)

\* handlePost once the body is decoded and the logger knows the template.
handleDecoded(x, p) ==
    IF ~ p.templateOK
    THEN writeError(x, StatusBadRequest, "invalid_template", <<"Plantilla no valida">>)
    ELSE IF ~ p.titleOK
    THEN writeError(x, StatusBadRequest, "invalid_request",
                    <<"El titulo es obligatorio">>)
    ELSE IF ~ p.fieldsOK
    THEN writeError(x, StatusBadRequest, "invalid_request",
                    <<"El campo es obligatorio">>)
    ELSE afterIssueCreator(callGitHub(x, "issueCreator"), p)

\* handlePost on a request p whose body decodes (p.jsonOK), names a known
\* template (p.templateOK), has a non-blank title (p.titleOK) and the required
\* fields (p.fieldsOK), with the outcomes p.issueOK of issueCreator and
\* p.projectOK of projectAdder.
handlePost(x, p) ==
    IF ~ p.jsonOK
    THEN writeError(x, StatusBadRequest, "invalid_request", <<"JSON invalido">>)
    ELSE handleDecoded(SetTemplate(x, templateIdOf(p)), p)

\* The switch on the method in handleRequest.
dispatch(x, method, p) ==
    IF method = "OPTIONS"
    THEN WriteHeader(RecordStatus(x, StatusNoContent), StatusNoContent)
    ELSE IF method = "POST"
    THEN handlePost(x, p)
    ELSE writeError(x, StatusMethodNotAllowed, "method_not_allowed",
                    <<"metodo no permitido">>)

\* What the client, the caller of handleCORS, the log backend and GitHub see
\* of one request, and the request itself.
answered(method, originHeader, p, cors, x) ==
    [kind |-> "request", method |-> method, originHeader |-> originHeader,
     corsOK |-> cors.ok, guardCalled |-> cors.guardCalled,
     status |-> x.w.status, header |-> x.w.header, body |-> x.w.body,
     requestID |-> x.rl.requestID, log |-> x.log,
     writeFailed |-> x.writeFailed, request |-> p, github |-> x.github]

\* The deferred function of handleRequest: the status written, then "finish".
finishDeferred(x) ==
    IF x.w.status # 0 THEN Finish(RecordStatus(x, x.w.status)) ELSE Finish(x)

\* Mutant of afterCORS: a refused request returns before the logger finishes.
afterCORSNoFinishOnDeny(method, originHeader, p, cors) ==
    IF ~ cors.ok
    THEN answered(method, originHeader, p, cors, cors.x)
    ELSE answered(method, originHeader, p, cors,
                  finishDeferred(dispatch(cors.x, method, p)))

\* handleRequest after handleCORS: return when it refused, dispatch otherwise.
afterCORS(method, originHeader, p, cors) ==
    IF ~ cors.ok
    THEN answered(method, originHeader, p, cors, finishDeferred(cors.x))
    ELSE answered(method, originHeader, p, cors,
                  finishDeferred(dispatch(cors.x, method, p)))

\* The request as handleRequest starts on it: the response writer, and the
\* logger with its "start" entry sent.
startRequest(rl, writeOK) ==
    logWithEntry([w |-> newResponseWriter, rl |-> rl, log |-> <<>>,
                  writeOK |-> writeOK, writeFailed |-> FALSE,
                  github |-> <<>>],
                 "start", "INFO")

\* handleRequest, for the request id that generateRequestID draws and the
\* outcome of the write to the client.
handleRequest(method, originHeader, p, requestID, writeOK) ==
    afterCORS(method, originHeader, p,
              handleCORS(startRequest(newRequestLogger(requestID, method,
                                                       originHeader),
                                      writeOK),
                         originHeader))

(***************************************************************************)
(* internal/contracts: SessionDAO                                          *)
(***************************************************************************)

\* time.Time{}: the zero instant.  Instants are integers, earlier ones smaller.
ZeroTime == 0

\* The latest instant of a session.
MaxTime == 2

\* Instants of CreatedAt and ExpiresAt: one before the zero instant, the zero
\* instant, and those after it.
Times == (ZeroTime - 1)..MaxTime

\* A *Session: nil, or the fields the validations read.
sessionOf(sessionID, userID, createdAt, expiresAt) ==
    [isNil |-> FALSE, SessionID |-> sessionID, UserID |-> userID,
     CreatedAt |-> createdAt, ExpiresAt |-> expiresAt]

NilSession ==
    [isNil |-> TRUE, SessionID |-> "", UserID |-> "", CreatedAt |-> ZeroTime,
     ExpiresAt |-> ZeroTime]

Sessions ==
    {NilSession}
    \cup {sessionOf(sessionID, userID, createdAt, expiresAt) :
            sessionID \in {"", "session-test"}, userID \in {"", "user-test"},
            createdAt \in Times, expiresAt \in Times}

\* Mutant of CreateSession: an ExpiresAt equal to CreatedAt is accepted.
CreateSessionAllowsEqual(session) ==
    IF session.isNil THEN "ErrNilSession"
    ELSE IF session.SessionID = "" THEN "ErrEmptySessionID"
    ELSE IF session.UserID = "" THEN "ErrEmptyUserID"
    ELSE IF session.CreatedAt = ZeroTime THEN "ErrInvalidCreatedAt"
    ELSE IF session.ExpiresAt < session.CreatedAt THEN "ErrInvalidExpiresAt"
    ELSE "nil"

\* SessionDAO.CreateSession: the error it returns, "nil" for none.
CreateSession(session) ==
    IF session.isNil THEN "ErrNilSession"
    ELSE IF session.SessionID = "" THEN "ErrEmptySessionID"
    ELSE IF session.UserID = "" THEN "ErrEmptyUserID"
    ELSE IF session.CreatedAt = ZeroTime THEN "ErrInvalidCreatedAt"
    ELSE IF \/ session.ExpiresAt < session.CreatedAt
            \/ session.ExpiresAt = session.CreatedAt
    THEN "ErrInvalidExpiresAt"
    ELSE "nil"

\* SessionDAO.UpdateSession
UpdateSession(session) ==
    IF session.isNil THEN "ErrNilSession"
    ELSE IF session.SessionID = "" THEN "ErrEmptySessionID"
    ELSE "nil"

(***************************************************************************)
(* cmd/sync-modules                                                        *)
(***************************************************************************)

estadosHechoExactos ==
    {<<"h", "e", "c", "h", "o">>,
     <<"d", "o", "n", "e">>,
     <<"c", "o", "m", "p", "l", "e", "t", "a", "d", "o">>,
     <<"c", "o", "m", "p", "l", "e", "t", "o">>,
     <<"f", "i", "n", "a", "l", "i", "z", "a", "d", "o">>,
     <<"c", "e", "r", "r", "a", "d", "o">>,
     <<"c", "l", "o", "s", "e", "d">>,
     <<"d", "e", "p", "l", "o", "y">>,
     <<"d", "e", "p", "l", "o", "y", "m", "e", "n", "t">>,
     <<"d", "e", "p", "l", "o", "y", "e", "d">>,
     <<"d", "e", "s", "p", "l", "e", "g", "a", "d", "o">>,
     <<"d", "e", "s", "p", "l", "e", "g", "a", "d", "a">>,
     <<"d", "e", "s", "p", "l", "i", "e", "g", "u", "e">>}

estadosHechoRaices ==
    {<<"h", "e", "c", "h">>,
     <<"d", "o", "n", "e">>,
     <<"f", "i", "n", "a", "l">>,
     <<"d", "e", "p", "l", "o", "y">>,
     <<"d", "e", "s", "p", "l", "e", "g">>,
     <<"d", "e", "s", "p", "l", "i", "e", "g">>}

estadosCursoExactos ==
    {<<"e", "n", " ", "c", "u", "r", "s", "o">>,
     <<"c", "u", "r", "s", "o">>,
     <<"e", "n", " ", "e", "j", "e", "c", "u", "c", "i", "ó", "n">>,
     <<"e", "n", " ", "e", "j", "e", "c", "u", "c", "i", "o", "n">>,
     <<"d", "e", "s", "a", "r", "r", "o", "l", "l", "o">>,
     <<"e", "n", " ", "d", "e", "s", "a", "r", "r", "o", "l", "l", "o">>,
     <<"i", "n", " ", "p", "r", "o", "g", "r", "e", "s", "s">>,
     <<"p", "r", "o", "g", "r", "e", "s", "s">>,
     <<"b", "l", "o", "q", "u", "e", "a", "d", "o">>,
     <<"b", "l", "o", "q", "u", "e", "a", "d", "a">>}

estadosCursoRaices ==
    {<<"c", "u", "r", "s", "o">>,
     <<"d", "e", "s", "a", "r", "r">>,
     <<"p", "r", "o", "g", "r", "e", "s">>,
     <<"b", "l", "o", "q">>}

estadosPlanExactos ==
    {<<"p", "l", "a", "n", "i", "f", "i", "c", "a", "d", "o">>,
     <<"p", "l", "a", "n", "i", "f", "i", "c", "a", "d", "a">>,
     <<"p", "l", "a", "n", "i", "f", "i", "c", "a", "c", "i", "ó", "n">>,
     <<"p", "l", "a", "n", "i", "f", "i", "c", "a", "c", "i", "o", "n">>,
     <<"e", "n", " ", "p", "l", "a", "n", "e", "a", "c", "i", "ó", "n">>,
     <<"e", "n", " ", "p", "l", "a", "n", "e", "a", "c", "i", "o", "n">>,
     <<"p", "l", "a", "n", "e", "a", "d", "o">>,
     <<"p", "l", "a", "n", "e", "a", "d", "a">>,
     <<"p", "o", "r", " ", "h", "a", "c", "e", "r">>,
     <<"p", "e", "n", "d", "i", "e", "n", "t", "e">>,
     <<"b", "a", "c", "k", "l", "o", "g">>}

\* strings.Contains
Contains(s, substr) ==
    \E i \in 0..(Len(s) - Len(substr)) :
        SubSeq(s, i + 1, i + Len(substr)) = substr

ContainsAny(s, raices) == \E raiz \in raices : Contains(s, raiz)

\* The two results of normalizeStatus.
statusOf(estado, porcentaje) == [estado |-> estado, porcentaje |-> porcentaje]

\* normalizeStatus on the lowered and trimmed text.
normalizeLowered(s) ==
    IF s = <<>> THEN statusOf("Planificado", 0)
    ELSE IF s \in estadosHechoExactos THEN statusOf("Hecho", 100)
    ELSE IF s \in estadosCursoExactos THEN statusOf("En curso", 50)
    ELSE IF s \in estadosPlanExactos THEN statusOf("Planificado", 0)
    ELSE IF ContainsAny(s, estadosHechoRaices) THEN statusOf("Hecho", 100)
    ELSE IF ContainsAny(s, estadosCursoRaices) THEN statusOf("En curso", 50)
    ELSE statusOf("Planificado", 0)

normalizeStatus(raw) == normalizeLowered(TrimSpace(ToLower(raw)))

singleName(typename, name) ==
    IF typename = "ProjectV2ItemFieldSingleSelectValue" THEN name ELSE <<>>

\* A project item: the number and the state of its issue (number 0 when the
\* content is no issue), and its Status field.
itemOf(number, state, typename, status) ==
    [number |-> number, state |-> state, typename |-> typename,
     status |-> status]

\* ModuleOut: the fields that depend on the number, the state and the Status.
moduleWith(it, st) ==
    [ID |-> it.number, Estado |-> st.estado, Porcentaje |-> st.porcentaje]

\* Mutant of moduleOf: the state of the issue is not looked at.
moduleOfIgnoresState(it) ==
    moduleWith(it, normalizeStatus(singleName(it.typename, it.status)))

\* The module main builds for an item with an issue.
moduleOf(it) ==
    IF it.state = "CLOSED"
    THEN moduleWith(it, statusOf("Hecho", 100))
    ELSE moduleWith(it, normalizeStatus(singleName(it.typename, it.status)))

\* The loop of main over the nodes of one page: items without issue are
\* skipped, the others appended in order.
RECURSIVE modulesOf(_)
modulesOf(nodes) ==
    IF nodes = <<>> THEN <<>>
    ELSE IF Head(nodes).number = 0 THEN modulesOf(Tail(nodes))
    ELSE <<moduleOf(Head(nodes))>> \o modulesOf(Tail(nodes))

\* The output file: absent, as an earlier run left it, written by this run, or
\* created by this run and not written to the end.
fileOf(kind, modules) == [kind |-> kind, modules |-> modules]

\* The after variable before the first page: nil.  The EndCursor of page k of
\* the project is k.
NilCursor == 0

\* main of sync-modules before its loop, for a project (its pages, each the
\* nodes of one answer) and an output file.  sync.requested lists the after
\* variables of the queries made, sync.initial is the file as the run found it.
startingSync(project, file) ==
    [pc |-> "query", project |-> project, after |-> NilCursor, all |-> <<>>,
     file |-> file, initial |-> file, requested |-> <<>>, failed |-> ""]

\* Mutant of pageFetched: the loop ends after the first page.
pageFetchedStopsAtFirst(sy) ==
    [sy EXCEPT !.all = @ \o modulesOf(sy.project[sy.after + 1]),
               !.requested = Append(@, sy.after),
               !.pc = "write"]

\* One turn of the loop whose query succeeds: the page after the cursor is
\* read, its modules appended, and the loop goes on with its EndCursor when
\* HasNextPage is true.
pageFetched(sy) ==
    [sy EXCEPT !.all = @ \o modulesOf(sy.project[sy.after + 1]),
               !.requested = Append(@, sy.after),
               !.after = IF sy.after + 1 < Len(sy.project)
                         THEN sy.after + 1 ELSE @,
               !.pc = IF sy.after + 1 < Len(sy.project)
                      THEN "query" ELSE "write"]

\* log.Fatalf: the run ends at the step named.
syncFatal(sy, step) == [sy EXCEPT !.pc = "fatal", !.failed = step]

\* The writing of the file, or its failure at os.MkdirAll, os.Create
\* (nothing touched) or Encode (the file created and not complete).
written(sy, outcome) ==
    IF outcome = "ok"
    THEN [sy EXCEPT !.pc = "done", !.file = fileOf("written", sy.all)]
    ELSE IF outcome = "json"
    THEN [syncFatal(sy, outcome) EXCEPT !.file = fileOf("partial", <<>>)]
    ELSE syncFatal(sy, outcome)

(***************************************************************************)
(* cloudLoggingBackend: the cached token                                   *)
(***************************************************************************)

\* time.Minute, in the unit of the clock of the model.
Minute == 1

\* The most the clock reaches, and the number of calls of Log, each in a
\* goroutine of its own.
MaxClock == 3
MaxCallers == 3

Callers == 1..MaxCallers

\* tokenMu when no goroutine holds it; otherwise the goroutine holding it.
Unlocked == 0

\* No successful fetch yet.
NoFetch == [by |-> 0]

\* A call of Log not yet made.  Once made, pc is "lock" (blocked in tokenMu.Lock),
\* "check" (lock held, before the test of the cache), "fetch" (in fetchToken)
\* or "done" (ensureToken returned token or err).  checkedAt is the clock at
\* the test of the cache, prior the last successful fetch at that moment.
idleCaller ==
    [pc |-> "idle", checkedAt |-> 0, prior |-> NoFetch, fetched |-> FALSE,
     token |-> "", err |-> FALSE]

\* The backend as newCloudLoggingBackend returns it: no token, the zero
\* expiry, the mutex free.  now is the clock, lastFetch the last successful
\* fetch with the goroutine that made it.
startingBackend ==
    [now |-> 0, token |-> "", expiry |-> 0, tokenMu |-> Unlocked,
     lastFetch |-> NoFetch, callers |-> [c \in Callers |-> idleCaller]]

\* Log calls ensureToken.
logCalled(b, c) == [b EXCEPT !.callers[c] = [idleCaller EXCEPT !.pc = "lock"]]

\* Mutant of tokenMuUnlocked: Lock never blocks.
tokenMuIgnored(b) == TRUE

\* c.tokenMu.Lock() returns only when no goroutine holds the mutex.
tokenMuUnlocked(b) == b.tokenMu = Unlocked

locked(b, c) == [b EXCEPT !.tokenMu = c, !.callers[c].pc = "check"]

\* defer c.tokenMu.Unlock()
unlocked(b) == [b EXCEPT !.tokenMu = Unlocked]

\* c.token != "" && time.Until(c.expiry) > time.Minute
cacheFresh(b) == b.token # "" /\ b.expiry - b.now > Minute

\* ensureToken after Lock: the cached token is returned, or fetchToken starts.
checked(b, c) ==
    IF cacheFresh(b)
    THEN unlocked([b EXCEPT !.callers[c].checkedAt = b.now,
                            !.callers[c].prior = b.lastFetch,
                            !.callers[c].pc = "done",
                            !.callers[c].token = b.token])
    ELSE [b EXCEPT !.callers[c].checkedAt = b.now,
                   !.callers[c].prior = b.lastFetch,
                   !.callers[c].pc = "fetch",
                   !.callers[c].fetched = TRUE]

\* fetchToken returns an error: ensureToken returns it.
fetchFailed(b, c) ==
    unlocked([b EXCEPT !.callers[c].pc = "done", !.callers[c].err = TRUE])

\* fetchToken returns a token and its expiry, now plus expires_in.
fetchSucceeded(b, c, token, expiresIn) ==
    unlocked([b EXCEPT !.token = token,
                       !.expiry = b.now + expiresIn,
                       !.lastFetch = [by |-> c, token |-> token,
                                      expiry |-> b.now + expiresIn],
                       !.callers[c].pc = "done",
                       !.callers[c].token = token])

(***************************************************************************)
(* Inputs                                                                  *)
(***************************************************************************)

\* The longest configured list, in candidates.
MaxCandidates == 2

\* The candidates an operator writes in ALLOWED_ORIGIN.
ConfiguredTokens ==
    {OriginA, OriginAUpper443, OriginSubA, OriginAPort, NotAURL, StrStar}

\* The separators between them.
Separators == {<<",">>, <<",", " ">>, <<";", "\n">>}

CandidateLists ==
    UNION {[1..n -> ConfiguredTokens] : n \in 0..MaxCandidates}

\* Values of ALLOWED_ORIGIN: lists of candidates, and a blank value.
ConfiguredStrings ==
    {Join(l, sep) : l \in CandidateLists, sep \in Separators} \cup {<<" ">>}

\* Values of buildDefaultAllowedOrigins (set with -ldflags) and of the
\* fallback argument in the tests.
FallbackStrings ==
    {<<>>, defaultAllowedOrigin, OriginB, OriginA, NotAURL, StrStar,
     OriginB \o <<",", " ">> \o OriginAUpper443,
     OriginB \o <<",">> \o OriginA}

\* The ALLOWED_ORIGIN values of the table of TestConfigureAllowedOrigins, of
\* TestConfigureAllowedOriginsDefaultFallback and of
\* TestConfigureAllowedOriginsWildcard, which keep the result in a local.
TestCurrents ==
    {<<>>, <<" ">>, StrStar,
     OriginA \o <<",">> \o OriginSubA,
     OriginA \o <<",", " ">> \o OriginAUpper443,
     NotAURL \o <<",", " ">> \o OriginA,
     OriginA \o <<",", " ">> \o StrStar}

\* Their fallback argument.
TestFallbacks == {OriginB, defaultAllowedOrigin}

\* Values of the Origin request header.
OriginHeaders ==
    {<<>>, <<" ">>, OriginA, <<" ">> \o OriginA \o <<" ">>, OriginAUpper443,
     OriginAPath, OriginSubA, OriginAPort, OriginB, defaultAllowedOrigin,
     HttpBad, NoHost}

Methods == {"OPTIONS", "POST", "GET"}

\* A POST body and the answers of GitHub to it.
PostInput(jsonOK, templateOK, titleOK, fieldsOK, issueOK, projectOK) ==
    [jsonOK |-> jsonOK, templateOK |-> templateOK, titleOK |-> titleOK,
     fieldsOK |-> fieldsOK, issueOK |-> issueOK, projectOK |-> projectOK]

\* A valid POST that GitHub accepts, and the POSTs that fail at one step each.
PostInputs ==
    {PostInput(TRUE, TRUE, TRUE, TRUE, TRUE, TRUE),
     PostInput(FALSE, TRUE, TRUE, TRUE, TRUE, TRUE),
     PostInput(TRUE, FALSE, TRUE, TRUE, TRUE, TRUE),
     PostInput(TRUE, TRUE, FALSE, TRUE, TRUE, TRUE),
     PostInput(TRUE, TRUE, TRUE, FALSE, TRUE, TRUE),
     PostInput(TRUE, TRUE, TRUE, TRUE, FALSE, TRUE),
     PostInput(TRUE, TRUE, TRUE, TRUE, TRUE, FALSE)}

\* The body of a request that is not a POST is not read.
BodiesOf(method) ==
    IF method = "POST" THEN PostInputs
    ELSE {PostInput(FALSE, FALSE, FALSE, FALSE, FALSE, FALSE)}

\* The ids generateRequestID draws.
RequestIDs == {"req-1", "req-2"}

\* The outcomes of the write of the body to the client: it succeeds, or the
\* client has gone.
WriteOutcomes == BOOLEAN

\* Values of ALLOWED_ORIGIN the service is deployed with: none, a list, and
\* the wildcard.
DeployedOrigins == {<<>>, OriginA \o <<",">> \o OriginSubA, StrStar}

\* call.kind: "configure" after a configureAllowedOrigins call, "preset" after
\* a test has emptied the configuration, "reset" after a test has reset the
\* flag and the display string only, "none" otherwise.
\* call.prev is the call before it when one call follows another at once:
\* its arguments, the flag and the normalized entries it left, and the origins
\* isOriginAllowed accepted after it.
NoPrevious ==
    [kind |-> "none", current |-> <<>>, fallback |-> <<>>, allowAny |-> FALSE,
     normalized |-> {}, allowed |-> {}]

NoCall ==
    [kind |-> "none", current |-> <<>>, fallback |-> <<>>,
     allowAnyBefore |-> FALSE, entries |-> <<>>, prev |-> NoPrevious]

PresetCall == [NoCall EXCEPT !.kind = "preset"]
ResetCall == [NoCall EXCEPT !.kind = "reset"]

\* The value of buildDefaultAllowedOrigins when no -ldflags sets it.
buildDefaultAllowedOrigins == defaultAllowedOrigin

\* Inputs of normalizeOrigin, written scheme "://" host port between white
\* space: the schemes, hosts and ports (the port with its colon) they are
\* made of, and the white space around them.
NormalizeSchemes ==
    {<<>>, StrHTTP, StrHTTPS, <<"H", "T", "T", "P", "S">>, <<"f", "t", "p">>,
     <<"1", "x">>}

NormalizeHosts ==
    {<<>>, <<"a", ".", "e", "x">>, <<"A", ".", "E", "x">>, <<"a", " ", "b">>}

NormalizePorts ==
    {<<>>, <<":">>, <<":", "8", "0">>, <<":", "4", "4", "3">>,
     <<":", "8", "4", "4", "3">>, <<":", "0", "8", "0">>, <<":", "x">>}

Paddings ==
    {<<<<>>, <<>>>>, <<<<" ", " ">>, <<" ">>>>, <<<<"\t">>, <<"\r", "\n">>>>}

OriginParts == NormalizeSchemes \X NormalizeHosts \X NormalizePorts \X Paddings

\* The input made of the parts p.
Compose(p) == p[4][1] \o p[1] \o StrSchemeSep \o p[2] \o p[3] \o p[4][2]

\* Inputs of normalizeOrigin: the composed ones, and values of other shapes.
NormalizeInputs ==
    {Compose(p) : p \in OriginParts}
    \cup {<<>>, StrStar, NotAURL, NoHost, HttpBad, OriginAPath,
          <<"/", "/", "a", ".", "e", "x">>,
          StrHTTPS \o <<":", "a", ".", "e", "x">>}

\* The longest input of splitOriginCandidates, in characters.
MaxRawLen == 4

\* Its characters: a letter, a blank and the five separators.
RawChars == {"a", " ", ",", ";", "\n", "\r", "\t"}

SplitInputs == UNION {[1..n -> RawChars] : n \in 0..MaxRawLen}

\* server.phase: "off" when main is not running.
NoServer == [phase |-> "off"]

\* probe.fn: "" before a direct call, the name of the function after it.
NoProbe == [fn |-> "", input |-> <<>>, err |-> FALSE, value |-> <<>>]

NoResponse ==
    [kind |-> "none", method |-> "", originHeader |-> <<>>, corsOK |-> FALSE,
     guardCalled |-> FALSE, status |-> 0, header |-> <<>>, body |-> NoBody,
     requestID |-> "", log |-> <<>>, writeFailed |-> FALSE,
     request |-> PostInput(FALSE, FALSE, FALSE, FALSE, FALSE, FALSE),
     github |-> <<>>]

\* Values of GITHUB_TOKEN, GITHUB_PROJECT_ID and LOGGING_PROJECT_ID in the
\* environment of the service: unset, blank, set.
EnvValues == {<<>>, <<" ">>, <<"x">>}

\* The most requests the handler goroutines of net/http serve at one time.
MaxRequests == 2

RequestSlots == 1..MaxRequests

\* The Origin headers of the concurrent clients: none, one the list allows
\* written otherwise, one it does not allow.
ServerOriginHeaders == {<<>>, <<" ">> \o OriginAUpper443, OriginB}

\* Their bodies: a POST that succeeds.
ServerBodies(method) ==
    IF method = "POST" THEN {PostInput(TRUE, TRUE, TRUE, TRUE, TRUE, TRUE)}
    ELSE BodiesOf(method)

\* The id generateRequestID draws for the request of slot i.
requestIDOf(i) == IF i = 1 THEN "req-1" ELSE "req-2"

\* A handler goroutine with no request: r.pc = "idle".  r.cors is what
\* handleCORS has made of the request so far, r.answer what was answered.
IdleRequest ==
    [pc |-> "idle", method |-> "", originHeader |-> <<>>,
     p |-> PostInput(FALSE, FALSE, FALSE, FALSE, FALSE, FALSE),
     requestID |-> "",
     cors |-> [ok |-> FALSE, guardCalled |-> FALSE,
               x |-> [w |-> newResponseWriter,
                      rl |-> newRequestLogger("", "", <<>>), log |-> <<>>,
                      writeOK |-> TRUE, writeFailed |-> FALSE,
                      github |-> <<>>]],
     answer |-> NoResponse]

\* Status texts of the project items.
StatusSamples ==
    {<<>>,
     <<" ", " ">>,
     <<"D", "o", "n", "e">>,
     <<" ", "I", "n", " ", "P", "r", "o", "g", "r", "e", "s", "s", " ">>,
     <<"T", "o", "d", "o">>,
     <<"B", "a", "c", "k", "l", "o", "g">>,
     <<"D", "E", "P", "L", "O", "Y", " ", "l", "i", "s", "t", "o">>,
     <<"n", "o", " ", "b", "l", "o", "q", "u", "e", "a">>,
     <<"R", "e", "v", "i", "s", "a", "r">>,
     <<"e", "n", " ", "e", "j", "e", "c", "u", "c", "i", "ó", "n">>,
     <<"C", "e", "r", "r", "a", "d", "o">>,
     <<"c", "u", "r", "s", "o", " ", "f", "i", "n", "a", "l">>}

\* The items of the projects with several pages: one without issue, one
\* closed and in progress, one open with a status of no table.
PagedItems ==
    {itemOf(0, "OPEN", "ProjectV2ItemFieldSingleSelectValue", <<"D", "o", "n", "e">>),
     itemOf(8, "CLOSED", "ProjectV2ItemFieldSingleSelectValue",
            <<"I", "n", " ", "P", "r", "o", "g", "r", "e", "s", "s">>),
     itemOf(6, "OPEN", "ProjectV2ItemFieldSingleSelectValue",
            <<"R", "e", "v", "i", "s", "a", "r">>)}

\* The most pages of a project, and the most items of a page.
MaxPages == 2
MaxPageItems == 2

Pages == UNION {[1..n -> PagedItems] : n \in 0..MaxPageItems}

\* The items of the projects of one item: every status text, with and without
\* a single-select Status field, open and closed.
SingleItems ==
    {itemOf(9, state, typename, status) :
        state \in {"OPEN", "CLOSED"},
        typename \in {"ProjectV2ItemFieldSingleSelectValue", ""},
        status \in StatusSamples}

Projects ==
    UNION {[1..n -> Pages] : n \in 1..MaxPages}
    \cup {<<<<it>>>> : it \in SingleItems}

\* The output file before the run.
InitialFiles ==
    {fileOf("absent", <<>>),
     fileOf("old", <<moduleWith(itemOf(1, "OPEN", "", <<>>),
                                statusOf("Planificado", 0))>>)}

\* sync.pc: "off" when sync-modules is not running.
NoSync == [pc |-> "off"]

\* The access tokens fetchToken returns, and their expires_in.
AccessTokens == {"ya29.a", "ya29.b"}
ExpiresIn == {1, 3}

\* backend.tokenMu: "off" when no cloudLoggingBackend is in use.
NoBackend == [tokenMu |-> "off"]

(***************************************************************************)
(* Actions                                                                 *)
(***************************************************************************)

\* The record of a configureAllowedOrigins call.
callOf(allowAny0, current, fallback, r) ==
    [kind |-> "configure", current |-> current, fallback |-> fallback,
     allowAnyBefore |-> allowAny0, entries |-> r.entries, prev |-> NoPrevious]

\* allowedOriginEntries = configureAllowedOrigins(current, fallback): the
\* function writes allowAnyOrigin and allowedOrigin, the caller the entries.
Built(allowAny0, current, fallback, r) ==
    /\ allowAnyOrigin' = r.allowAny
    /\ allowedOrigin' = r.allowedOrigin
    /\ allowedOriginEntries' = r.entries
    /\ call' = callOf(allowAny0, current, fallback, r)
    /\ response' = NoResponse
    /\ UNCHANGED <<probe, server, sync, backend>>

\* The package variables after their initialisers have run.
Initialised(current, fallback, r) ==
    /\ allowAnyOrigin = r.allowAny
    /\ allowedOrigin = r.allowedOrigin
    /\ allowedOriginEntries = r.entries
    /\ call = callOf(FALSE, current, fallback, r)
    /\ response = NoResponse

\* Package initialisation: allowAnyOrigin is the zero value, allowedOrigin the
\* trimmed ALLOWED_ORIGIN, and the entries are built from it.
Init ==
    /\ \E env \in ConfiguredStrings, fallback \in FallbackStrings :
          Initialised(TrimSpace(env), fallback,
                      configureAllowedOrigins(FALSE, TrimSpace(env), fallback))
    /\ probe = NoProbe
    /\ server = NoServer
    /\ sync = NoSync
    /\ backend = NoBackend

\* A test empties the configuration before it starts: allowAnyOrigin = false,
\* allowedOrigin = "", allowedOriginEntries = nil.
ClearAllowedOrigins ==
    /\ allowAnyOrigin' = FALSE
    /\ allowedOrigin' = <<>>
    /\ allowedOriginEntries' = <<>>
    /\ call' = PresetCall
    /\ response' = NoResponse
    /\ UNCHANGED <<probe, server, sync, backend>>

\* A test opens CORS by hand before it starts: allowAnyOrigin = true,
\* allowedOriginEntries = nil.
ForceWildcard ==
    /\ call.kind = "preset"
    /\ allowAnyOrigin' = TRUE
    /\ allowedOriginEntries' = <<>>
    /\ UNCHANGED <<allowedOrigin, call, response, probe, server, sync, backend>>

\* A test rebuilds the allow-list after its presets; the call starts with
\* the flag as the preset left it.
Reconfigure ==
    /\ call.kind = "preset"
    /\ \E current \in ConfiguredStrings, fallback \in FallbackStrings :
           Built(allowAnyOrigin, current, fallback,
                 configureAllowedOrigins(allowAnyOrigin, current, fallback))

\* A test resets the flag and the display string and leaves the entries:
\* allowAnyOrigin = false, allowedOrigin = "".
ResetWildcard ==
    /\ call.kind = "none"
    /\ response.kind = "none"
    /\ allowAnyOrigin' = FALSE
    /\ allowedOrigin' = <<>>
    /\ call' = ResetCall
    /\ UNCHANGED <<allowedOriginEntries, response, probe, server, sync, backend>>

\* entries := configureAllowedOrigins(current, fallback) after that reset:
\* the result stays in a local of the test, the package entries are not
\* assigned.
Unstored(allowAny0, current, fallback, r) ==
    /\ allowAnyOrigin' = r.allowAny
    /\ allowedOrigin' = r.allowedOrigin
    /\ call' = callOf(allowAny0, current, fallback, r)
    /\ UNCHANGED <<allowedOriginEntries, response, probe, server, sync, backend>>

TestCall ==
    /\ call.kind = "reset"
    /\ \E current \in TestCurrents, fallback \in TestFallbacks :
           Unstored(allowAnyOrigin, current, fallback,
                    configureAllowedOrigins(allowAnyOrigin, current, fallback))

\* The origins among a set that isOriginAllowed accepts in this state.
AllowedAmong(origins) == {x \in origins : isOriginAllowed(x)}

\* What a following call remembers of the call that has just returned.
previousOf(c) ==
    [kind |-> "configure", current |-> c.current, fallback |-> c.fallback,
     allowAny |-> allowAnyOrigin,
     normalized |-> {c.entries[i].normalized : i \in 1..Len(c.entries)},
     allowed |-> AllowedAmong(OriginHeaders)]

\* Lists of origins and the same lists with an origin spelled otherwise.
Respelled ==
    {<<OriginA, OriginAUpper443>>,
     <<OriginAUpper443, OriginA>>,
     <<OriginSubA \o <<",">> \o OriginA,
       OriginSubA \o <<";", " ">> \o OriginAUpper443>>}

\* The values of ALLOWED_ORIGIN a second call is made with: the same value,
\* and the value respelled.
SecondCurrents(current) ==
    {current} \cup {pair[2] : pair \in {q \in Respelled : q[1] = current}}

\* allowedOriginEntries = configureAllowedOrigins(current, fallback) once
\* more, right after a call whose result was stored and with the flag as that
\* call left it.
Rebuilt(current, fallback, r) ==
    /\ allowAnyOrigin' = r.allowAny
    /\ allowedOrigin' = r.allowedOrigin
    /\ allowedOriginEntries' = r.entries
    /\ call' = [callOf(allowAnyOrigin, current, fallback, r)
                  EXCEPT !.prev = previousOf(call)]
    /\ response' = NoResponse
    /\ UNCHANGED <<probe, server, sync, backend>>

Rebuild ==
    /\ call.kind = "configure"
    /\ call.prev.kind = "none"
    /\ allowedOriginEntries = call.entries
    /\ \E current \in SecondCurrents(call.current) :
           Rebuilt(current, call.fallback,
                   configureAllowedOrigins(allowAnyOrigin, current, call.fallback))

\* The call, the preset or the request is over: the server waits for the
\* next request with the configuration as it stands.
Serve ==
    /\ call.kind # "none" \/ response.kind # "none"
    /\ call' = NoCall
    /\ response' = NoResponse
    /\ UNCHANGED <<allowAnyOrigin, allowedOrigin, allowedOriginEntries, probe,
                   server, sync, backend>>

\* One request through handleRequest, to a client that reads the answer.
HandleRequest ==
    /\ call.kind = "none"
    /\ response.kind = "none"
    /\ \E method \in Methods, originHeader \in OriginHeaders :
         \E p \in BodiesOf(method) :
           /\ response' = handleRequest(method, originHeader, p, "req-1", TRUE)
           /\ UNCHANGED <<allowAnyOrigin, allowedOrigin, allowedOriginEntries, call,
                          probe, server, sync, backend>>

\* A direct call of normalizeOrigin or splitOriginCandidates, as the tests
\* make them: the package variables are those of a start with no
\* ALLOWED_ORIGIN, and the call leaves them alone.
DefaultStart ==
    Initialised(<<>>, buildDefaultAllowedOrigins,
                configureAllowedOrigins(FALSE, <<>>, buildDefaultAllowedOrigins))

probeOf(fn, input, err, value) ==
    [fn |-> fn, input |-> input, err |-> err, value |-> value]

normalizeProbe(input, n) == probeOf("normalizeOrigin", input, n.err, n.value)

InitHelpers ==
    /\ DefaultStart
    /\ \E input \in NormalizeInputs \cup SplitInputs :
          probe = probeOf("", input, FALSE, <<>>)
    /\ server = NoServer
    /\ sync = NoSync
    /\ backend = NoBackend

NormalizeOriginCall ==
    /\ probe.fn = ""
    /\ probe.input \in NormalizeInputs
    /\ probe' = normalizeProbe(probe.input, normalizeOrigin(probe.input))
    /\ UNCHANGED <<allowAnyOrigin, allowedOrigin, allowedOriginEntries, call,
                   response, server, sync, backend>>

SplitOriginCandidatesCall ==
    /\ probe.fn = ""
    /\ probe.input \in SplitInputs
    /\ probe' = probeOf("splitOriginCandidates", probe.input, FALSE,
                        splitOriginCandidates(probe.input))
    /\ UNCHANGED <<allowAnyOrigin, allowedOrigin, allowedOriginEntries, call,
                   response, server, sync, backend>>

\* The service as deployed: package initialisation with one of the deployed
\* values of ALLOWED_ORIGIN.
InitLogging ==
    /\ \E env \in DeployedOrigins :
          Initialised(env, buildDefaultAllowedOrigins,
                      configureAllowedOrigins(FALSE, env,
                                              buildDefaultAllowedOrigins))
    /\ probe = NoProbe
    /\ server = NoServer
    /\ sync = NoSync
    /\ backend = NoBackend

\* One request through handleRequest, with the id drawn for it and the write
\* to the client succeeding or failing.
HandleRequestLogged ==
    /\ call.kind = "none"
    /\ response.kind = "none"
    /\ \E method \in Methods, originHeader \in OriginHeaders :
         \E p \in BodiesOf(method), requestID \in RequestIDs,
            writeOK \in WriteOutcomes :
           /\ response' = handleRequest(method, originHeader, p, requestID,
                                        writeOK)
           /\ UNCHANGED <<allowAnyOrigin, allowedOrigin, allowedOriginEntries, call,
                          probe, server, sync, backend>>

NextLogging ==
    \/ Serve
    \/ HandleRequestLogged

SpecLogging == InitLogging /\ [][NextLogging]_vars

\* The process before main runs: the package variables are initialised, the
\* three settings are read and trimmed, requestLogBackend is the no-op one.
\* server.built is the allow-list configuration as package initialisation
\* left it.
startingServer(token, project, logProject) ==
    [phase |-> "starting", githubToken |-> TrimSpace(token),
     projectID |-> TrimSpace(project), logProjectID |-> TrimSpace(logProject),
     requestLogBackend |-> "noop", fatal |-> "", announced |-> "",
     built |-> <<allowAnyOrigin, allowedOrigin, allowedOriginEntries>>,
     requests |-> [i \in RequestSlots |-> IdleRequest]]

InitServer ==
    /\ \E env \in DeployedOrigins :
          Initialised(env, buildDefaultAllowedOrigins,
                      configureAllowedOrigins(FALSE, env,
                                              buildDefaultAllowedOrigins))
    /\ probe = NoProbe
    /\ \E token \in EnvValues, project \in EnvValues, logProject \in EnvValues :
          server = startingServer(token, project, logProject)
    /\ sync = NoSync
    /\ backend = NoBackend

\* log.Fatal(message): the process exits.
fatal(sv, message) == [sv EXCEPT !.phase = "fatal", !.fatal = message]

\* What main prints about the allow-list before it listens.
announcement ==
    IF allowAnyOrigin THEN "CORS abierto"
    ELSE IF Len(allowedOriginEntries) = 0 THEN "ADVERTENCIA"
    ELSE "Origenes permitidos"

\* main up to http.ListenAndServe.
main(sv) ==
    IF sv.githubToken = <<>> THEN fatal(sv, "GITHUB_TOKEN no configurado")
    ELSE IF sv.projectID = <<>>
    THEN fatal(sv, "GITHUB_PROJECT_ID no configurado")
    ELSE IF sv.logProjectID = <<>>
    THEN fatal(sv, "LOGGING_PROJECT_ID no configurado")
    ELSE [sv EXCEPT !.phase = "serving",
                    !.requestLogBackend = "cloudLogging",
                    !.announced = announcement]

Main ==
    /\ server.phase = "starting"
    /\ server' = main(server)
    /\ UNCHANGED <<allowAnyOrigin, allowedOrigin, allowedOriginEntries, call,
                   response, probe, sync, backend>>

\* The steps of one handler goroutine.  Each is one read of the package
\* variables at most, so that the steps of several requests interleave
\* between any two reads.

\* handleRequest up to the call of handleCORS: the logger has sent "start".
arrived(i, method, originHeader, p) ==
    [IdleRequest EXCEPT
        !.pc = "handleCORS", !.method = method, !.originHeader = originHeader,
        !.p = p, !.requestID = requestIDOf(i),
        !.cors.x = startRequest(newRequestLogger(requestIDOf(i), method,
                                                 originHeader),
                                TRUE)]

\* handleCORS trims the header; isOriginAllowed reads allowAnyOrigin.
flagRead(r) ==
    IF TrimSpace(r.originHeader) = <<>>
    THEN [r EXCEPT !.pc = "dispatch", !.cors.ok = TRUE]
    ELSE IF allowAnyOrigin
    THEN [r EXCEPT !.pc = "headers", !.cors.guardCalled = TRUE]
    ELSE [r EXCEPT !.pc = "entries", !.cors.guardCalled = TRUE]

\* isOriginAllowed reads allowedOriginEntries and looks for the origin.
originMatches(r) ==
    /\ Len(allowedOriginEntries) # 0
    /\ matchNormalized(normalizeOrigin(TrimSpace(r.originHeader)))

\* handleCORS after isOriginAllowed has answered.
entriesRead(r) ==
    IF originMatches(r)
    THEN [r EXCEPT !.pc = "headers"]
    ELSE [r EXCEPT !.pc = "dispatch",
                   !.cors.x = denyOrigin(@, TrimSpace(r.originHeader))]

\* handleCORS reads allowAnyOrigin again to write the headers.
headersSet(r) ==
    [r EXCEPT !.pc = "dispatch", !.cors.ok = TRUE,
              !.cors.x.w.header = allowHeaders(@, TrimSpace(r.originHeader))]

\* The rest of handleRequest: it reads no package variable of the allow-list.
dispatched(r) ==
    [r EXCEPT !.pc = "done",
              !.answer = afterCORS(r.method, r.originHeader, r.p, r.cors)]

\* The goroutine of slot i goes from r to its next step q.
Stepped(i, q) ==
    /\ server' = [server EXCEPT !.requests[i] = q]
    /\ UNCHANGED <<allowAnyOrigin, allowedOrigin, allowedOriginEntries, call,
                   response, probe, sync, backend>>

Arrive(i) ==
    /\ server.phase = "serving"
    /\ server.requests[i].pc = "idle"
    /\ \E method \in Methods, originHeader \in ServerOriginHeaders :
         \E p \in ServerBodies(method) :
            Stepped(i, arrived(i, method, originHeader, p))

ReadFlag(i) ==
    /\ server.requests[i].pc = "handleCORS"
    /\ Stepped(i, flagRead(server.requests[i]))

\* Mutant of ReadEntries: an origin found in the list opens the flag for the
\* requests that follow.
ReadEntriesOpensFlag(i) ==
    /\ server.requests[i].pc = "entries"
    /\ server' = [server EXCEPT !.requests[i] = entriesRead(server.requests[i])]
    /\ allowAnyOrigin' = originMatches(server.requests[i])
    /\ UNCHANGED <<allowedOrigin, allowedOriginEntries, call, response, probe, sync, backend>>

ReadEntries(i) ==
    /\ server.requests[i].pc = "entries"
    /\ Stepped(i, entriesRead(server.requests[i]))

SetHeaders(i) ==
    /\ server.requests[i].pc = "headers"
    /\ Stepped(i, headersSet(server.requests[i]))

Dispatch(i) ==
    /\ server.requests[i].pc = "dispatch"
    /\ Stepped(i, dispatched(server.requests[i]))

\* The goroutine ends; net/http starts another for the next request.
Retire(i) ==
    /\ server.requests[i].pc = "done"
    /\ Stepped(i, IdleRequest)

NextServer ==
    \/ Main
    \/ \E i \in RequestSlots : Arrive(i)
    \/ \E i \in RequestSlots : ReadFlag(i)
    \/ \E i \in RequestSlots : ReadEntries(i)
    \/ \E i \in RequestSlots : SetHeaders(i)
    \/ \E i \in RequestSlots : Dispatch(i)
    \/ \E i \in RequestSlots : Retire(i)

SpecServer == InitServer /\ [][NextServer]_vars

\* A direct call of a SessionDAO operation, as the contract tests make them.
InitContracts ==
    /\ DefaultStart
    /\ \E session \in Sessions : probe = probeOf("", session, "", <<>>)
    /\ server = NoServer
    /\ sync = NoSync
    /\ backend = NoBackend

CreateSessionCall ==
    /\ probe.fn = ""
    /\ probe' = probeOf("CreateSession", probe.input,
                        CreateSession(probe.input), <<>>)
    /\ UNCHANGED <<allowAnyOrigin, allowedOrigin, allowedOriginEntries, call,
                   response, server, sync, backend>>

UpdateSessionCall ==
    /\ probe.fn = ""
    /\ probe' = probeOf("UpdateSession", probe.input,
                        UpdateSession(probe.input), <<>>)
    /\ UNCHANGED <<allowAnyOrigin, allowedOrigin, allowedOriginEntries, call,
                   response, server, sync, backend>>

NextContracts ==
    \/ CreateSessionCall
    \/ UpdateSessionCall

SpecContracts == InitContracts /\ [][NextContracts]_vars

\* The values of ALLOWED_ORIGIN of those calls.
ConfigureCurrents == TestCurrents \cup {OriginAPort}

\* A process in which configureAllowedOrigins is called again and again,
\* each result stored, the flag as the call before left it.
InitConfigure ==
    /\ \E env \in ConfigureCurrents, fallback \in FallbackStrings :
          Initialised(TrimSpace(env), fallback,
                      configureAllowedOrigins(FALSE, TrimSpace(env), fallback))
    /\ probe = NoProbe
    /\ server = NoServer
    /\ sync = NoSync
    /\ backend = NoBackend

ConfigureAgain ==
    /\ call.kind = "configure"
    /\ \E current \in ConfigureCurrents, fallback \in FallbackStrings :
           Built(allowAnyOrigin, current, fallback,
                 configureAllowedOrigins(allowAnyOrigin, current, fallback))

SpecConfigure == InitConfigure /\ [][ConfigureAgain]_vars

\* A run of sync-modules on a project, with the output file absent or left
\* by an earlier run.  The create-issue service is not part of it.
InitSync ==
    /\ DefaultStart
    /\ probe = NoProbe
    /\ server = NoServer
    /\ \E project \in Projects, file \in InitialFiles :
          sync = startingSync(project, file)
    /\ backend = NoBackend

SyncStepped(sy) ==
    /\ sync' = sy
    /\ UNCHANGED <<allowAnyOrigin, allowedOrigin, allowedOriginEntries, call,
                   response, probe, server, backend>>

\* cli.Query returns a page.
QueryPage ==
    /\ sync.pc = "query"
    /\ SyncStepped(pageFetched(sync))

\* cli.Query returns an error: log.Fatalf.
QueryFails ==
    /\ sync.pc = "query"
    /\ SyncStepped(syncFatal(sync, "GraphQL"))

\* The code after the loop: the file is written, or one of its steps fails.
WriteFile ==
    /\ sync.pc = "write"
    /\ \E outcome \in {"ok", "mkdir", "crear", "json"} :
          SyncStepped(written(sync, outcome))

NextSync ==
    \/ QueryPage
    \/ QueryFails
    \/ WriteFile

SpecSync == InitSync /\ [][NextSync]_vars

\* One cloudLoggingBackend and the calls of Log on it.
InitBackend ==
    /\ DefaultStart
    /\ probe = NoProbe
    /\ server = NoServer
    /\ sync = NoSync
    /\ backend = startingBackend

BackendStepped(b) ==
    /\ backend' = b
    /\ UNCHANGED <<allowAnyOrigin, allowedOrigin, allowedOriginEntries, call,
                   response, probe, server, sync>>

\* A goroutine calls Log, which calls ensureToken.  A later call of the same
\* goroutine is another caller.
LogCall ==
    \E c \in Callers :
        /\ backend.callers[c].pc = "idle"
        /\ BackendStepped(logCalled(backend, c))

\* tokenMu.Lock() returns.
LockToken ==
    \E c \in Callers :
        /\ backend.callers[c].pc = "lock"
        /\ tokenMuUnlocked(backend)
        /\ BackendStepped(locked(backend, c))

\* The test of the cached token.
CheckToken ==
    \E c \in Callers :
        /\ backend.callers[c].pc = "check"
        /\ BackendStepped(checked(backend, c))

FetchSucceeds ==
    \E c \in Callers, token \in AccessTokens, expiresIn \in ExpiresIn :
        /\ backend.callers[c].pc = "fetch"
        /\ BackendStepped(fetchSucceeded(backend, c, token, expiresIn))

FetchFails ==
    \E c \in Callers :
        /\ backend.callers[c].pc = "fetch"
        /\ BackendStepped(fetchFailed(backend, c))

\* Time passes.
Tick ==
    /\ backend.now < MaxClock
    /\ BackendStepped([backend EXCEPT !.now = @ + 1])

NextBackend ==
    \/ LogCall
    \/ LockToken
    \/ CheckToken
    \/ FetchSucceeds
    \/ FetchFails
    \/ Tick

SpecBackend == InitBackend /\ [][NextBackend]_vars

NextHelpers ==
    \/ NormalizeOriginCall
    \/ SplitOriginCandidatesCall

SpecHelpers == InitHelpers /\ [][NextHelpers]_vars

Next ==
    \/ ClearAllowedOrigins
    \/ ForceWildcard
    \/ Reconfigure
    \/ ResetWildcard
    \/ TestCall
    \/ Rebuild
    \/ Serve
    \/ HandleRequest

Spec == Init /\ [][Next]_vars

(***************************************************************************)
(* Properties                                                              *)
(***************************************************************************)

\* The normalized values of a list of entries.
NormalizedSet(entries) == {entries[i].normalized : i \in 1..Len(entries)}

\* A request has been handled; RequestOrigin is its trimmed Origin header.
Requested == response.kind = "request"
RequestOrigin == TrimSpace(response.originHeader)

\* The values isOriginAllowed is probed with: the headers, and a bare word.
\* isOriginAllowed reads the package variables only, and a request leaves them
\* as they are: the guard is probed with every value in the states between
\* requests, and in the state after a request the answer given is checked.
ProbeOrigins == OriginHeaders \cup {NotAURL}

\* x normalizes to the normalized value of some entry of the allow-list.
MatchesSomeEntry(x) ==
    /\ ~ normalizeOrigin(x).err
    /\ normalizeOrigin(x).value \in NormalizedSet(allowedOriginEntries)

IsStrictPrefix(p, t) == Len(p) < Len(t) /\ SubSeq(t, 1, Len(p)) = p

\* The host[:port] of a normalized origin, and its scheme.
HostPart(n) == SubSeq(n, IndexChar(n, ":") + 3, Len(n))
SchemePart(n) == SubSeq(n, 1, IndexChar(n, ":") - 1)

\* n is the origin of a subdomain of the host of m.
IsSubdomainOrigin(n, m) ==
    /\ SchemePart(n) = SchemePart(m)
    /\ Len(HostPart(n)) > Len(HostPart(m)) + 1
    /\ SubSeq(HostPart(n), Len(HostPart(n)) - Len(HostPart(m)),
              Len(HostPart(n))) = <<".">> \o HostPart(m)

\* x is no entry of the allow-list, only a subdomain, a prefix or an
\* extension of one.
OnlyRelatedToAnEntry(x) ==
    /\ ~ normalizeOrigin(x).err
    /\ normalizeOrigin(x).value \notin NormalizedSet(allowedOriginEntries)
    /\ \E m \in NormalizedSet(allowedOriginEntries) :
          \/ IsStrictPrefix(m, normalizeOrigin(x).value)
          \/ IsStrictPrefix(normalizeOrigin(x).value, m)
          \/ IsSubdomainOrigin(normalizeOrigin(x).value, m)

\* C1: in allow-list mode (wildcard off, entries non-empty) isOriginAllowed(x)
\* is true exactly when x normalizes and its normalized form equals the
\* normalized field of some entry; a malformed or empty x is refused, and so
\* is an origin that is only a subdomain, a prefix or an extension of an
\* allowed one.
C1_ExactMatchInAllowListMode ==
    (~ allowAnyOrigin /\ Len(allowedOriginEntries) > 0) =>
        /\ ~ Requested =>
               \A x \in ProbeOrigins :
                   /\ isOriginAllowed(x) <=> MatchesSomeEntry(x)
                   /\ normalizeOrigin(x).err => ~ isOriginAllowed(x)
                   /\ OnlyRelatedToAnEntry(x) => ~ isOriginAllowed(x)
        /\ (Requested /\ response.guardCalled) =>
               /\ response.corsOK <=> MatchesSomeEntry(RequestOrigin)
               /\ OnlyRelatedToAnEntry(RequestOrigin) => ~ response.corsOK

\* A request from a subdomain of an allowed origin was refused.
C1_Witness ==
    /\ Requested
    /\ ~ allowAnyOrigin
    /\ response.originHeader = OriginSubA
    /\ OriginA \in NormalizedSet(allowedOriginEntries)
    /\ OriginSubA \notin NormalizedSet(allowedOriginEntries)
    /\ ~ response.corsOK
    /\ response.status = StatusForbidden

\* C2: while allowAnyOrigin is true isOriginAllowed(x) is true for every x,
\* well-formed, malformed or empty, whatever the entries are: normalization is
\* not consulted.
C2_WildcardAllowsEverything ==
    allowAnyOrigin =>
        /\ ~ Requested => \A x \in ProbeOrigins : isOriginAllowed(x)
        /\ (Requested /\ response.guardCalled) => response.corsOK

\* A malformed Origin was accepted in wildcard mode, with entries in place.
C2_Witness ==
    /\ Requested
    /\ allowAnyOrigin
    /\ Len(allowedOriginEntries) > 0
    /\ response.originHeader = HttpBad
    /\ normalizeOrigin(HttpBad).err
    /\ response.guardCalled
    /\ response.corsOK

\* C3: with wildcard off and no entry, isOriginAllowed(x) is false for every
\* x, the default origin included, and handleCORS answers every request with a
\* non-empty Origin with 403 and returns false.
C3_FailClosed ==
    (~ allowAnyOrigin /\ Len(allowedOriginEntries) = 0) =>
        /\ ~ Requested => \A x \in ProbeOrigins : ~ isOriginAllowed(x)
        /\ ~ isOriginAllowed(defaultAllowedOrigin)
        /\ (Requested /\ RequestOrigin # <<>>) =>
               (response.status = StatusForbidden /\ ~ response.corsOK)

\* The default origin was refused by an empty configuration.
C3_Witness ==
    /\ Requested
    /\ ~ allowAnyOrigin
    /\ Len(allowedOriginEntries) = 0
    /\ response.originHeader = defaultAllowedOrigin
    /\ response.status = StatusForbidden
    /\ ~ response.corsOK

\* C4: a request with a non-empty Origin that isOriginAllowed refuses is
\* answered 403, with no Access-Control-Allow-Origin and no other CORS header,
\* and a JSON error body with code forbidden_origin whose message names the
\* refused origin; never with a 5xx status.
C4_DeniedOriginGets403 ==
    (Requested /\ RequestOrigin # <<>> /\ ~ isOriginAllowed(RequestOrigin)) =>
        /\ response.status = StatusForbidden
        /\ response.status < 500
        /\ ~ response.corsOK
        /\ DOMAIN response.header \cap CORSHeaderNames = {}
        /\ response.body.kind = "json"
        /\ response.body.errorCode = "forbidden_origin"
        /\ Len(response.body.message) = 1 + Len(RequestOrigin)
        /\ SubSeq(response.body.message, 2, Len(response.body.message))
               = RequestOrigin

\* An origin outside a non-empty allow-list was refused with 403.
C4_Witness ==
    /\ Requested
    /\ ~ allowAnyOrigin
    /\ Len(allowedOriginEntries) > 0
    /\ response.originHeader = OriginB
    /\ response.method = "POST"
    /\ response.status = StatusForbidden
    /\ response.body.errorCode = "forbidden_origin"

\* The headers of an accepted cross-origin request, with echoed the value
\* that Access-Control-Allow-Origin must carry in allow-list mode.
AcceptedHeadersEcho(echoed) ==
    (Requested /\ RequestOrigin # <<>> /\ response.corsOK) =>
        /\ "Access-Control-Allow-Origin" \in DOMAIN response.header
        /\ allowAnyOrigin =>
               response.header["Access-Control-Allow-Origin"] = StrStar
        /\ ~ allowAnyOrigin =>
               /\ response.header["Access-Control-Allow-Origin"] = echoed
               /\ "Vary" \in DOMAIN response.header
               /\ response.header["Vary"] = "Origin"
        /\ ("Vary" \in DOMAIN response.header) <=> ~ allowAnyOrigin

\* C5 as stated: an accepted request gets Access-Control-Allow-Origin "*" in
\* wildcard mode and otherwise the literal Origin header value received, with
\* Vary: Origin, which is set in allow-list mode only.
C5_EchoesLiteralHeader == AcceptedHeadersEcho(response.originHeader)

\* C5 amended: an accepted request gets Access-Control-Allow-Origin "*" in
\* wildcard mode and otherwise the Origin header value with its surrounding
\* white space trimmed (not its normalized form), with Vary: Origin, which is
\* set in allow-list mode only.
C5_EchoesTrimmedHeader == AcceptedHeadersEcho(RequestOrigin)

\* An allowed origin written in upper case with the default port was echoed
\* as received, not as normalized.
C5_Witness ==
    /\ Requested
    /\ ~ allowAnyOrigin
    /\ response.corsOK
    /\ response.originHeader = OriginAUpper443
    /\ normalizeOrigin(OriginAUpper443).value # OriginAUpper443
    /\ response.header["Access-Control-Allow-Origin"] = OriginAUpper443
    /\ response.header["Vary"] = "Origin"

\* C6: a request whose Origin header is absent or blank passes handleCORS
\* (true) without a call of isOriginAllowed and without any CORS header,
\* whatever the configuration, and goes on to the dispatch on the method.
C6_NoOriginSkipsGuard ==
    (Requested /\ RequestOrigin = <<>>) =>
        /\ response.corsOK
        /\ ~ response.guardCalled
        /\ DOMAIN response.header \cap CORSHeaderNames = {}
        /\ response.body.errorCode # "forbidden_origin"
        /\ response.method = "OPTIONS" => response.status = StatusNoContent
        /\ response.method = "GET" =>
               /\ response.status = StatusMethodNotAllowed
               /\ response.body.errorCode = "method_not_allowed"
        /\ response.method = "POST" =>
               response.status \in {StatusOK, StatusBadRequest, StatusBadGateway}

\* A POST with a blank Origin was served by an empty configuration.
C6_Witness ==
    /\ Requested
    /\ ~ allowAnyOrigin
    /\ Len(allowedOriginEntries) = 0
    /\ response.originHeader = <<" ">>
    /\ response.method = "POST"
    /\ response.status = StatusOK
    /\ response.body.issueUrl # ""

\* A configureAllowedOrigins call has just returned.
Called == call.kind = "configure"

\* Some candidate of the raw list is exactly "*".
HasStar(raw) ==
    \E i \in 1..Len(splitOriginCandidates(raw)) :
        splitOriginCandidates(raw)[i] = StrStar

\* C7: after a configureAllowedOrigins call started with wildcard off and
\* without a "*" candidate, the returned entries hold the normalized form of
\* every fallback origin that normalizes, whether the configured list is
\* empty, all invalid or not; an empty ALLOWED_ORIGIN with the default
\* fallback yields a list holding https://ron-datadriven.github.io.
C7_FallbackAlwaysIncluded ==
    (/\ Called
     /\ ~ call.allowAnyBefore
     /\ ~ HasStar(call.current)
     /\ ~ HasStar(call.fallback)) =>
        /\ \A i \in 1..Len(splitOriginCandidates(call.fallback)) :
              ~ normalizeOrigin(splitOriginCandidates(call.fallback)[i]).err =>
                  normalizeOrigin(splitOriginCandidates(call.fallback)[i]).value
                      \in NormalizedSet(call.entries)
        /\ (TrimSpace(call.current) = <<>> /\ call.fallback = defaultAllowedOrigin) =>
              defaultAllowedOrigin \in NormalizedSet(call.entries)

\* A call with a valid configured origin kept the fallback beside it.
C7_Witness ==
    /\ Called
    /\ ~ call.allowAnyBefore
    /\ call.current = OriginA
    /\ call.fallback = OriginB
    /\ NormalizedSet(call.entries) = {OriginA, OriginB}

\* C8: when a candidate of the configured list is exactly "*", at any place
\* and whatever the other candidates and the fallback are, the call leaves
\* allowAnyOrigin true and returns nil.
C8_WildcardTakesPrecedence ==
    (Called /\ HasStar(call.current)) =>
        /\ allowAnyOrigin
        /\ call.entries = <<>>

\* A "*" after a valid origin, with a valid fallback, opened CORS.
C8_Witness ==
    /\ Called
    /\ ~ call.allowAnyBefore
    /\ call.current = OriginA \o <<",", " ">> \o StrStar
    /\ call.fallback = OriginB
    /\ allowAnyOrigin
    /\ call.entries = <<>>

\* C9: no two entries returned by configureAllowedOrigins have the same
\* normalized value, whatever the spellings and the places of the duplicates
\* in the configured list and the fallback.
C9_NoDuplicateNormalized ==
    Called =>
        \A i, j \in 1..Len(call.entries) :
            i # j => call.entries[i].normalized # call.entries[j].normalized

\* One origin given three times, in two spellings, in the list and as the
\* fallback, was kept once.
C9_Witness ==
    /\ Called
    /\ call.current = OriginA \o <<",", " ">> \o OriginAUpper443
    /\ call.fallback = OriginA
    /\ Len(call.entries) = 1
    /\ call.entries[1].normalized = OriginA

\* The candidates that are "*" or normalize.
WellFormedOnly(candidates) ==
    SelectSeq(candidates, LAMBDA c : c = StrStar \/ ~ normalizeOrigin(c).err)

\* Some candidate of the raw list is malformed.
HasMalformed(raw) ==
    Len(WellFormedOnly(splitOriginCandidates(raw))) < Len(splitOriginCandidates(raw))

\* The last call returned the entries of r and left the flag of r.
SameAsCall(r) == call.entries = r.entries /\ allowAnyOrigin = r.allowAny

\* C10: a malformed candidate does not abort the build nor change what the
\* others give: the call returns the entries and leaves the flag that the
\* same call returns and leaves on the list without its malformed candidates.
C10_MalformedCandidatesIgnored ==
    Called =>
        SameAsCall(configureAllowedOrigins(
                       call.allowAnyBefore,
                       Join(WellFormedOnly(splitOriginCandidates(call.current)),
                            <<",">>),
                       call.fallback))

\* A list with a malformed candidate before a valid one gave the valid one
\* and the fallback.
C10_Witness ==
    /\ Called
    /\ ~ call.allowAnyBefore
    /\ HasMalformed(call.current)
    /\ call.current = NotAURL \o <<",", " ">> \o OriginA
    /\ call.fallback = OriginB
    /\ NormalizedSet(call.entries) = {OriginA, OriginB}
    /\ Len(call.entries) = 2

\* No candidate of the raw list normalizes.
NoValidCandidate(raw) ==
    \A i \in 1..Len(splitOriginCandidates(raw)) :
        normalizeOrigin(splitOriginCandidates(raw)[i]).err

\* Neither input of the last call has a valid origin or a "*".
NothingValidSupplied ==
    /\ Called
    /\ NoValidCandidate(call.current)
    /\ NoValidCandidate(call.fallback)
    /\ ~ HasStar(call.current)
    /\ ~ HasStar(call.fallback)

\* The candidates the two inputs of the last call supply.
SuppliedCandidates ==
    {splitOriginCandidates(call.current)[i] :
        i \in 1..Len(splitOriginCandidates(call.current))}
    \cup {splitOriginCandidates(call.fallback)[i] :
            i \in 1..Len(splitOriginCandidates(call.fallback))}

\* C11 as stated: when neither the configured list nor the fallback yields a
\* valid origin and there is no "*", the call ends with wildcard off and no
\* entry, and no call adds an origin that neither input supplied.
C11_EmptyWhenNothingValid ==
    /\ NothingValidSupplied => (~ allowAnyOrigin /\ call.entries = <<>>)
    /\ Called =>
           \A i \in 1..Len(call.entries) :
               call.entries[i].raw \in SuppliedCandidates

\* C11 amended: when neither input yields a valid origin and there is no "*",
\* a call started with wildcard off ends with wildcard off and one entry, the
\* built-in default origin, which neither input supplied; a call started with
\* wildcard on leaves it on and returns nil.  No call ends with wildcard off
\* and no entry.
C11_DefaultWhenNothingValid ==
    /\ (NothingValidSupplied /\ ~ call.allowAnyBefore) =>
           /\ ~ allowAnyOrigin
           /\ call.entries =
                  <<originEntry(defaultAllowedOrigin, defaultAllowedOrigin)>>
           /\ allowedOrigin = defaultAllowedOrigin
    /\ (NothingValidSupplied /\ call.allowAnyBefore) =>
           (allowAnyOrigin /\ call.entries = <<>>)
    /\ Called => (allowAnyOrigin \/ Len(call.entries) > 0)

\* A call whose two inputs are malformed returned the default origin.
C11_Witness ==
    /\ Called
    /\ ~ call.allowAnyBefore
    /\ call.current = NotAURL
    /\ call.fallback = NotAURL
    /\ defaultAllowedOrigin \notin SuppliedCandidates
    /\ Len(call.entries) = 1
    /\ call.entries[1].normalized = defaultAllowedOrigin

\* The entries of the first occurrences of the normalized values of the
\* candidates, in the order of the candidates.
RECURSIVE FirstOccurrences(_, _)
FirstOccurrenceOf(candidate, rest, seenBefore, n) ==
    IF n.err \/ n.value \in seenBefore
    THEN FirstOccurrences(rest, seenBefore)
    ELSE <<originEntry(candidate, n.value)>>
             \o FirstOccurrences(rest, seenBefore \cup {n.value})

FirstOccurrences(candidates, seenBefore) ==
    IF candidates = <<>> THEN <<>>
    ELSE FirstOccurrenceOf(Head(candidates), Tail(candidates), seenBefore,
                           normalizeOrigin(Head(candidates)))

\* The last call started with wildcard off, had no "*" and some valid origin.
BuiltFromValid ==
    /\ Called
    /\ ~ call.allowAnyBefore
    /\ ~ HasStar(call.current)
    /\ ~ HasStar(call.fallback)
    /\ ~ (NoValidCandidate(call.current) /\ NoValidCandidate(call.fallback))

\* C12 as stated: the entries are in order of first encounter across the
\* configured list and then the fallback: the entries of the configured list
\* come first, and of a configured candidate and a fallback with the same
\* normalized value the configured candidate's raw string is kept.
C12_ConfiguredBeforeFallback ==
    BuiltFromValid =>
        call.entries =
            FirstOccurrences(splitOriginCandidates(call.current)
                                 \o fallbackCandidates(call.fallback), {})

\* C12 amended: the entries are in order of first encounter across the
\* fallback list and then the configured list: the entries of the fallback
\* come first, and of a fallback candidate and a configured candidate with the
\* same normalized value the fallback candidate's raw string is kept.
C12_FallbackBeforeConfigured ==
    BuiltFromValid =>
        call.entries =
            FirstOccurrences(fallbackCandidates(call.fallback)
                                 \o splitOriginCandidates(call.current), {})

\* The fallback's entries came first, and its spelling of an origin that the
\* configured list spells otherwise was the one kept.
C12_Witness ==
    /\ Called
    /\ ~ call.allowAnyBefore
    /\ call.current = OriginSubA \o <<",">> \o OriginAUpper443
    /\ call.fallback = OriginB \o <<",">> \o OriginA
    /\ rawOrigins(call.entries) = <<OriginB, OriginA, OriginSubA>>

\* The last call followed another call at once.
CalledTwice == Called /\ call.prev.kind = "configure"

\* The two raw lists have the same number of candidates, all valid, and the
\* same normalized value at each place.
SameOrigins(a, b) ==
    /\ Len(splitOriginCandidates(a)) = Len(splitOriginCandidates(b))
    /\ Len(splitOriginCandidates(a)) > 0
    /\ \A i \in 1..Len(splitOriginCandidates(a)) :
          /\ ~ normalizeOrigin(splitOriginCandidates(a)[i]).err
          /\ ~ normalizeOrigin(splitOriginCandidates(b)[i]).err
          /\ normalizeOrigin(splitOriginCandidates(a)[i]).value
                = normalizeOrigin(splitOriginCandidates(b)[i]).value

\* C13: when the allow-list is built with origins o1 and built again with
\* origins o2 of the same normalized forms, with the same fallback and
\* wildcard off, isOriginAllowed gives the same answer for every candidate x
\* after the one build as after the other.
C13_SameAnswerForEquivalentSpellings ==
    (/\ CalledTwice
     /\ ~ call.prev.allowAny
     /\ ~ allowAnyOrigin
     /\ call.prev.fallback = call.fallback
     /\ SameOrigins(call.prev.current, call.current)) =>
        AllowedAmong(OriginHeaders) = call.prev.allowed

\* The list was built with https://a.ex and again with HTTPS://A.ex:443, and
\* https://a.ex is accepted after both builds.
C13_Witness ==
    /\ CalledTwice
    /\ ~ allowAnyOrigin
    /\ call.prev.current = OriginA
    /\ call.current = OriginAUpper443
    /\ call.current # call.prev.current
    /\ call.fallback = OriginB
    /\ call.entries[2].raw = OriginAUpper443
    /\ OriginA \in call.prev.allowed
    /\ isOriginAllowed(OriginA)
    /\ ~ isOriginAllowed(OriginSubA)

\* C14: a second configureAllowedOrigins call with the inputs of the call
\* before it leaves the same set of normalized entries and the same wildcard
\* flag as that call left.
C14_BuildIsIdempotent ==
    (/\ CalledTwice
     /\ call.prev.current = call.current
     /\ call.prev.fallback = call.fallback) =>
        /\ NormalizedSet(call.entries) = call.prev.normalized
        /\ allowAnyOrigin = call.prev.allowAny

\* A list with a "*" after a valid origin was built twice: wildcard both times.
C14_Witness ==
    /\ CalledTwice
    /\ call.prev.current = call.current
    /\ call.current = OriginA \o <<",", " ">> \o StrStar
    /\ call.fallback = OriginB
    /\ call.allowAnyBefore
    /\ allowAnyOrigin
    /\ call.prev.allowAny
    /\ call.entries = <<>>

\* A scheme url.Parse reads as one: it starts with a letter.
IsSchemePart(scheme) == scheme # <<>> /\ IsLetter(scheme[1])

\* A host name: not empty, of letters, digits, dots and hyphens.
IsHostPart(host) ==
    /\ host # <<>>
    /\ \A i \in 1..Len(host) :
          IsLetter(host[i]) \/ host[i] \in Digits \cup {".", "-"}

\* A port part: none, or a colon and digits (none after the colon: absent).
IsPortPart(port) ==
    port = <<>> \/ \A i \in 2..Len(port) : port[i] \in Digits

\* The port part is written in the normalized origin.
PortIsKept(scheme, port) ==
    /\ Len(port) > 1
    /\ ~ (ToLower(scheme) = StrHTTP /\ port = <<":">> \o Str80)
    /\ ~ (ToLower(scheme) = StrHTTPS /\ port = <<":">> \o Str443)

\* lower(scheme)://lower(host)[:port] of the parts p.
ExpectedOrigin(p) ==
    ToLower(p[1]) \o StrSchemeSep \o ToLower(p[2])
        \o (IF PortIsKept(p[1], p[3]) THEN p[3] ELSE <<>>)

\* normalizeOrigin has been called directly.
Normalized == probe.fn = "normalizeOrigin"

\* C15 as stated: normalizeOrigin fails exactly when the trimmed input does
\* not parse as a URI or has an empty scheme or an empty host, and otherwise
\* returns lower(scheme)://lower(host)[:port] for any scheme, the port left
\* out iff it is absent, 80 with http or 443 with https.
C15_NormalizeOriginContract ==
    Normalized =>
        /\ probe.err <=>
               \/ urlParse(TrimSpace(probe.input)).err
               \/ urlParse(TrimSpace(probe.input)).Scheme = <<>>
               \/ Hostname(urlParse(TrimSpace(probe.input))) = <<>>
        /\ \A p \in OriginParts :
               probe.input = Compose(p) =>
                   IF IsSchemePart(p[1]) /\ IsHostPart(p[2]) /\ IsPortPart(p[3])
                   THEN ~ probe.err /\ probe.value = ExpectedOrigin(p)
                   ELSE probe.err

\* The two-sided cut of s at its first and last character that is no space.
Stripped(s) ==
    IF \A i \in 1..Len(s) : IsSpace(s[i]) THEN <<>>
    ELSE SubSeq(s,
                CHOOSE i \in 1..Len(s) :
                    ~ IsSpace(s[i]) /\ \A j \in 1..(i - 1) : IsSpace(s[j]),
                CHOOSE i \in 1..Len(s) :
                    ~ IsSpace(s[i]) /\ \A j \in (i + 1)..Len(s) : IsSpace(s[j]))

IsSeparatorChar(c) == c \in {",", ";", "\n", "\r", "\t"}

\* The pieces of raw between its separators, every separator cutting once.
RECURSIVE CutAtSeparators(_)
CutAtSeparators(raw) ==
    IF \A i \in 1..Len(raw) : ~ IsSeparatorChar(raw[i]) THEN <<raw>>
    ELSE LET k == CHOOSE i \in 1..Len(raw) :
                      IsSeparatorChar(raw[i])
                      /\ \A j \in 1..(i - 1) : ~ IsSeparatorChar(raw[j])
         IN  <<SubSeq(raw, 1, k - 1)>> \o CutAtSeparators(SubSeq(raw, k + 1, Len(raw)))

\* The pieces, each stripped, without the empty ones.
ExpectedTokens(raw) ==
    SelectSeq([i \in 1..Len(CutAtSeparators(raw)) |-> Stripped(CutAtSeparators(raw)[i])],
              LAMBDA t : t # <<>>)

\* splitOriginCandidates has been called directly.
Split == probe.fn = "splitOriginCandidates"

\* C16: splitOriginCandidates(raw) is the sequence, in the order of raw and
\* with repetitions kept, of the trimmed non-empty pieces that cutting raw at
\* every comma, semicolon, LF, CR and tab gives; it holds no empty string, and
\* it is empty for an empty or all-blank raw.
C16_SplitOriginCandidatesContract ==
    Split =>
        /\ probe.value = ExpectedTokens(probe.input)
        /\ \A i \in 1..Len(probe.value) : probe.value[i] # <<>>
        /\ Stripped(probe.input) = <<>> => probe.value = <<>>

\* "a;;a " gave the token a twice.
C16_Witness ==
    /\ Split
    /\ probe.input = <<"a", ";", ";", "a">>
    /\ probe.value = << <<"a">>, <<"a">> >>


\* The allow-list configuration that request handling reads.
Configuration == <<allowAnyOrigin, allowedOrigin, allowedOriginEntries>>

\* The answer of handleRequest run alone on the request of r.
Sequential(r) == handleRequest(r.method, r.originHeader, r.p, r.requestID, TRUE)

\* The answer of the goroutine r, once it has one, is the sequential one.
AnswersSequentially(r) == r.pc = "done" => r.answer = Sequential(r)

\* C17: for every interleaving of concurrently handled requests, no step of
\* request handling writes allowAnyOrigin, allowedOrigin or
\* allowedOriginEntries: in every reachable state they are as the initial
\* build left them, and the answer of each request, its allow decision
\* included, is the one a sequential execution gives.
C17_ConfigurationReadOnly ==
    /\ Configuration = server.built
    /\ \A i \in RequestSlots : AnswersSequentially(server.requests[i])

\* C17 witness: in allow-list mode one request has been refused while
\* another, accepted by the list, is between two reads in handleCORS.
C17_Witness ==
    /\ ~ allowAnyOrigin
    /\ server.requests[1].pc = "done"
    /\ server.requests[1].answer.guardCalled
    /\ ~ server.requests[1].answer.corsOK
    /\ server.requests[1].answer.status = StatusForbidden
    /\ server.requests[2].pc = "headers"
    /\ Configuration = server.built

\* main has run with GITHUB_TOKEN and GITHUB_PROJECT_ID set and
\* LOGGING_PROJECT_ID empty.
StartedWithoutLoggingProject ==
    /\ server.phase # "starting"
    /\ server.githubToken # <<>>
    /\ server.projectID # <<>>
    /\ server.logProjectID = <<>>

\* C18: when LOGGING_PROJECT_ID is empty, with GITHUB_TOKEN and
\* GITHUB_PROJECT_ID set, the service does not fail at startup: it serves
\* requests and writes its request log records to stdout instead of Cloud
\* Logging.
C18_ServesWithoutLoggingProject ==
    StartedWithoutLoggingProject
        => /\ server.phase = "serving"
           /\ server.requestLogBackend = "stdout"

\* The entries of one request as the backend received them: "start" first,
\* "finish" last, neither of them in between, and the id of the request in
\* every one.
StartFirstFinishLast(log, requestID) ==
    /\ Len(log) >= 2
    /\ log[1].stage = "start"
    /\ log[Len(log)].stage = "finish"
    /\ \A i \in 2..(Len(log) - 1) : log[i].stage \notin {"start", "finish"}
    /\ \A i \in 1..Len(log) : log[i].requestId = requestID

\* C19: for every request handled by handleRequest, on every path (CORS
\* rejection, OPTIONS, POST success, POST validation or GitHub error, method
\* not allowed), the log backend receives exactly one "start" entry before
\* any other entry of the request and exactly one "finish" entry after all
\* the others, all with the same requestId.
C19_OneStartFirstOneFinishLast ==
    response.kind = "request"
        => StartFirstFinishLast(response.log, response.requestID)

\* C19 witness: a POST with an allowed origin that GitHub refuses and whose
\* answer the client does not read: three "error" entries between "start" and
\* "finish", under the second id.
C19_Witness ==
    /\ response.kind = "request"
    /\ response.method = "POST"
    /\ response.guardCalled
    /\ response.corsOK
    /\ response.status = StatusBadGateway
    /\ response.writeFailed
    /\ response.requestID = "req-2"
    /\ Len(response.log) = 5
    /\ StartFirstFinishLast(response.log, response.requestID)

\* The "finish" entry of a log.
FinishEntry(log) == log[Len(log)]

\* entry repeats the status of the answer, the error code of its body and, as
\* requestId, the debugId of its body.
Mirrors(entry, answer) ==
    /\ entry.stage = "finish"
    /\ entry.status = answer.status
    /\ entry.errorCode = answer.body.errorCode
    /\ entry.requestId = answer.body.debugId
    /\ answer.body.debugId # ""

\* The client got a JSON body: the handler wrote one and the write succeeded.
AnsweredWithJSON ==
    /\ response.kind = "request"
    /\ response.body.kind = "json"
    /\ ~ response.writeFailed

\* C20: for every request answered with a JSON body, the "finish" entry
\* mirrors the response: its status is the HTTP status sent, its errorCode the
\* error code of the body (empty when the body has no error), and its
\* requestId the debugId of the body.
C20_FinishMirrorsResponse ==
    AnsweredWithJSON => Mirrors(FinishEntry(response.log), response)

\* C20 witness: an issue created but not added to the project: status 200
\* with an error code in the body, both repeated by the "finish" entry.
C20_Witness ==
    /\ AnsweredWithJSON
    /\ response.status = StatusOK
    /\ response.body.errorCode = "github_project_error"
    /\ response.body.issueUrl # ""
    /\ Mirrors(FinishEntry(response.log), response)

\* The validations of the SessionContract, in the order of the document, each
\* with the error of its violation.
SessionRules ==
    <<"ErrNilSession", "ErrEmptySessionID", "ErrEmptyUserID",
      "ErrInvalidCreatedAt", "ErrInvalidExpiresAt">>

\* The session violates the rule whose error is e.
Violates(session, e) ==
    \/ e = "ErrNilSession" /\ session.isNil
    \/ e = "ErrEmptySessionID" /\ session.SessionID = ""
    \/ e = "ErrEmptyUserID" /\ session.UserID = ""
    \/ e = "ErrInvalidCreatedAt" /\ session.CreatedAt = ZeroTime
    \/ e = "ErrInvalidExpiresAt" /\ ~ (session.ExpiresAt > session.CreatedAt)

ViolatedRules(session) ==
    {i \in 1..Len(SessionRules) : Violates(session, SessionRules[i])}

\* The error of the first violated rule, "nil" when none is violated.
FirstViolation(session) ==
    IF ViolatedRules(session) = {} THEN "nil"
    ELSE SessionRules[CHOOSE i \in ViolatedRules(session) :
                          \A j \in ViolatedRules(session) : i <= j]

\* C21: CreateSession returns the error of the first violated rule in the
\* order nil session, empty SessionID, empty UserID, zero CreatedAt, ExpiresAt
\* not strictly after CreatedAt (equal included), and nil if and only if no
\* rule is violated.
C21_CreateSessionFirstViolation ==
    probe.fn = "CreateSession"
        => /\ probe.err = FirstViolation(probe.input)
           /\ (probe.err = "nil") <=> (ViolatedRules(probe.input) = {})

\* C21 witness: a session with ExpiresAt equal to a non-zero CreatedAt is
\* refused with ErrInvalidExpiresAt.
C21_Witness ==
    /\ probe.fn = "CreateSession"
    /\ ~ probe.input.isNil
    /\ probe.input.CreatedAt # ZeroTime
    /\ probe.input.ExpiresAt = probe.input.CreatedAt
    /\ ViolatedRules(probe.input) = {5}
    /\ probe.err = "ErrInvalidExpiresAt"

\* C22: UpdateSession, like CreateSession, returns an error for a session
\* that violates any of the SessionContract validations.
C22_UpdateSessionEnforcesContract ==
    (probe.fn = "UpdateSession" /\ ViolatedRules(probe.input) # {})
        => probe.err # "nil"

\* C23: after every configureAllowedOrigins call the display string
\* allowedOrigin is "*" if and only if wildcard mode is enabled; otherwise it
\* is the raw strings of the returned entries joined by commas in entry
\* order, and empty when the list is empty.
C23_DisplayString ==
    Called
        => /\ (allowedOrigin = StrStar) <=> allowAnyOrigin
           /\ ~ allowAnyOrigin
                  => allowedOrigin = Join(rawOrigins(call.entries), <<",">>)
           /\ (~ allowAnyOrigin /\ Len(call.entries) = 0)
                  => allowedOrigin = <<>>

\* C23 witness: a call that returned two entries, one of them written in
\* capitals with its default port.
C23_Witness ==
    /\ Called
    /\ ~ allowAnyOrigin
    /\ Len(call.entries) = 2
    /\ \E i \in 1..2 : call.entries[i].raw # call.entries[i].normalized
    /\ allowedOrigin = call.entries[1].raw \o <<",">> \o call.entries[2].raw

\* The call had no "*" among its candidates.
CalledWithoutStar == Called /\ ~ HasStar(call.current) /\ ~ HasStar(call.fallback)

\* C27: the configuration produced by configureAllowedOrigins(configured,
\* fallback) is determined by its two arguments alone: after any sequence of
\* earlier calls, calls that enabled wildcard included, a call whose inputs
\* contain no "*" leaves wildcard mode disabled and returns the entries the
\* same call returns in a fresh process.
C27_DeterminedByArguments ==
    CalledWithoutStar
        => /\ ~ allowAnyOrigin
           /\ call.entries =
                  configureAllowedOrigins(FALSE, call.current, call.fallback).entries

\* The client got an error response with one of the statuses 403, 400, 405
\* and 502.
AnsweredWithError ==
    /\ AnsweredWithJSON
    /\ response.body.errorCode # ""
    /\ response.status \in {StatusForbidden, StatusBadRequest,
                            StatusMethodNotAllowed, StatusBadGateway}

\* Every "error" entry of the log has the status and the error code.
ErrorEntriesCarry(log, status, errorCode) ==
    \A i \in 1..Len(log) :
        log[i].stage = "error"
            => log[i].status = status /\ log[i].errorCode = errorCode

\* C24: for every request answered with an error response (403
\* forbidden_origin, 400 invalid_request or invalid_template, 405
\* method_not_allowed, 502 github_issue_error), every "error" log entry of
\* the request carries the HTTP status sent to the client and the error code
\* of the response body.
C24_ErrorEntriesMirrorResponse ==
    AnsweredWithError
        => ErrorEntriesCarry(response.log, response.status,
                             response.body.errorCode)

\* The number of calls of fn among the calls made to GitHub.
CallsOf(github, fn) == Cardinality({i \in 1..Len(github) : github[i] = fn})

\* The request passed the CORS check, is a POST, and its body passed the
\* JSON, template, title and required-field validations.
ValidPost ==
    /\ response.kind = "request"
    /\ response.corsOK
    /\ response.method = "POST"
    /\ response.request.jsonOK
    /\ response.request.templateOK
    /\ response.request.titleOK
    /\ response.request.fieldsOK

\* issueCreator at most once and only for a valid POST; projectAdder at most
\* once, only after issueCreator, and only when that one succeeded.
GitHubCallsInOrder(github) ==
    /\ CallsOf(github, "issueCreator") <= 1
    /\ CallsOf(github, "projectAdder") <= 1
    /\ CallsOf(github, "issueCreator") = 1 => ValidPost
    /\ CallsOf(github, "projectAdder") = 1
          => /\ github = <<"issueCreator", "projectAdder">>
             /\ response.request.issueOK

\* C25: within one request issueCreator is called at most once and only
\* after the CORS check accepted the request, the method is POST and the
\* JSON, template, title and required-field validations passed; projectAdder
\* is called at most once and only after issueCreator returned success.  A
\* request refused by the origin guard, an OPTIONS request and an invalid
\* POST never reach GitHub.
C25_GitHubCallsGuarded ==
    response.kind = "request"
        => /\ GitHubCallsInOrder(response.github)
           /\ ~ ValidPost => response.github = <<>>

\* C25 witness: a request refused by the origin guard whose body was a valid
\* POST that GitHub would have accepted: no call was made.
C25_Witness ==
    /\ response.kind = "request"
    /\ response.method = "POST"
    /\ response.guardCalled
    /\ ~ response.corsOK
    /\ response.request.jsonOK
    /\ response.request.fieldsOK
    /\ response.request.issueOK
    /\ response.github = <<>>

\* The answers of a valid POST by the outcomes of issueCreator and
\* projectAdder.
ValidPostAnswer(request, status, body) ==
    /\ ~ request.issueOK
          => /\ status = StatusBadGateway
             /\ body.errorCode = "github_issue_error"
             /\ body.issueUrl = ""
    /\ (request.issueOK /\ ~ request.projectOK)
          => /\ status = StatusOK
             /\ body.errorCode = "github_project_error"
             /\ body.issueUrl # ""
    /\ (request.issueOK /\ request.projectOK)
          => /\ status = StatusOK
             /\ body.errorCode = ""
             /\ body.issueUrl # ""

\* C26: for a valid POST, a failure of issueCreator gives 502 with
\* github_issue_error and no issueUrl; a failure of projectAdder after a
\* created issue gives 200 with the issueUrl and github_project_error; both
\* succeeding gives 200 with the issueUrl and no error.  An issueUrl is in
\* the response if and only if the issue was created.
C26_GitHubOutcomes ==
    /\ ValidPost
          => /\ response.body.kind = "json"
             /\ ValidPostAnswer(response.request, response.status, response.body)
    /\ response.kind = "request"
          => (response.body.issueUrl # "") <=> (ValidPost /\ response.request.issueOK)

\* C26 witness: the issue was created and projectAdder failed: 200 with both
\* the issueUrl and the error code, after both calls.
C26_Witness ==
    /\ ValidPost
    /\ response.github = <<"issueCreator", "projectAdder">>
    /\ ~ response.request.projectOK
    /\ response.status = StatusOK
    /\ response.body.issueUrl # ""
    /\ response.body.errorCode = "github_project_error"

(***************************************************************************)
(* cmd/sync-modules: properties                                            *)
(***************************************************************************)

\* The nodes of all pages of a project, in page order.
RECURSIVE Flattened(_)
Flattened(project) ==
    IF project = <<>> THEN <<>>
    ELSE Head(project) \o Flattened(Tail(project))

HasIssue(it) == it.number # 0

\* The project items with an issue, in page order.
IssueItems(project) == SelectSeq(Flattened(project), HasIssue)

\* The Status text of an item: empty when the field is no single select.
StatusText(it) ==
    IF it.typename = "ProjectV2ItemFieldSingleSelectValue"
    THEN TrimSpace(ToLower(it.status)) ELSE <<>>

\* A status is recognized when it is in one of the tables of exact names or
\* holds one of the roots.
Recognized(text) ==
    \/ text \in estadosHechoExactos \cup estadosCursoExactos
                \cup estadosPlanExactos
    \/ ContainsAny(text, estadosHechoRaices \cup estadosCursoRaices)

EstadoPorcentaje(m) == <<m.Estado, m.Porcentaje>>

WrittenModuleOK(m, it) ==
    /\ EstadoPorcentaje(m) \in
          {<<"Planificado", 0>>, <<"En curso", 50>>, <<"Hecho", 100>>}
    /\ it.state = "CLOSED" => EstadoPorcentaje(m) = <<"Hecho", 100>>
    /\ (it.state = "OPEN"
          /\ (StatusText(it) = <<>> \/ ~Recognized(StatusText(it))))
       => EstadoPorcentaje(m) = <<"Planificado", 0>>

\* C28: every module written by sync-modules has (Estado, Porcentaje) among
\* ("Planificado", 0), ("En curso", 50), ("Hecho", 100); the module of a closed
\* issue is ("Hecho", 100) whatever its Status, and the module of an open
\* issue with an empty or unrecognized Status is ("Planificado", 0).
C28_WrittenStatus ==
    sync.pc = "done" =>
        /\ Len(sync.file.modules) = Len(IssueItems(sync.project))
        /\ \A i \in 1..Len(sync.file.modules) :
              WrittenModuleOK(sync.file.modules[i],
                              IssueItems(sync.project)[i])

\* C28 witness: a file written for a project with a closed issue whose Status
\* is in progress and an open issue whose Status is in no table.
C28_Witness ==
    /\ sync.pc = "done"
    /\ \E i \in 1..Len(IssueItems(sync.project)) :
          /\ IssueItems(sync.project)[i].state = "CLOSED"
          /\ normalizeStatus(IssueItems(sync.project)[i].status).estado
                = "En curso"
    /\ \E i \in 1..Len(IssueItems(sync.project)) :
          /\ IssueItems(sync.project)[i].state = "OPEN"
          /\ ~Recognized(StatusText(IssueItems(sync.project)[i]))
          /\ StatusText(IssueItems(sync.project)[i]) # <<>>

\* One module per item with an issue, in page order.
ExpectedModules(project) ==
    [i \in 1..Len(IssueItems(project)) |-> moduleOf(IssueItems(project)[i])]

\* C29: the output file is touched only after the page without next page was
\* fetched, each page is requested with the EndCursor of the one before (the
\* first with none), a failed page query leaves the file as it was, and a
\* successful run leaves one module per item with an issue, in page order.
C29_FileAfterLastPage ==
    sync.pc # "off" =>
        /\ sync.file # sync.initial =>
              /\ Len(sync.requested) = Len(sync.project)
              /\ sync.failed # "GraphQL"
        /\ \A k \in 1..Len(sync.requested) :
              sync.requested[k] = IF k = 1 THEN NilCursor ELSE k - 1
        /\ sync.failed = "GraphQL" => sync.file = sync.initial
        /\ sync.pc = "done" =>
              sync.file = fileOf("written", ExpectedModules(sync.project))

\* C29 witness: a file written from two pages, the second requested with the
\* EndCursor of the first, with an item without issue left out.
C29_Witness ==
    /\ sync.pc = "done"
    /\ sync.requested = <<NilCursor, 1>>
    /\ Len(sync.file.modules) >= 2
    /\ Len(sync.file.modules) < Len(Flattened(sync.project))
    /\ Len(sync.project[2]) > 0
    /\ sync.initial.kind = "old"

(***************************************************************************)
(* cloudLoggingBackend: properties                                         *)
(***************************************************************************)

FetchesInProgress == {c \in Callers : backend.callers[c].pc = "fetch"}

\* The goroutine tested the cache after a successful fetch of another
\* goroutine, when the expiry of that token was more than a minute away.
CheckedFreshFetchOfOther(c) ==
    /\ backend.callers[c].pc \in {"fetch", "done"}
    /\ backend.callers[c].prior # NoFetch
    /\ backend.callers[c].prior.by # c
    /\ backend.callers[c].prior.expiry - backend.callers[c].checkedAt > Minute

ReusedPrior(c) ==
    /\ ~backend.callers[c].fetched
    /\ ~backend.callers[c].err
    /\ backend.callers[c].pc = "done"
    /\ backend.callers[c].token = backend.callers[c].prior.token

OneFetchAndReuse ==
    /\ Cardinality(FetchesInProgress) <= 1
    /\ \A c \in Callers : CheckedFreshFetchOfOther(c) => ReusedPrior(c)

\* A step in which the fetch of a goroutine fails.
FetchFailsStep(c) ==
    /\ backend.callers[c].pc = "fetch"
    /\ backend'.callers[c].pc = "done"
    /\ backend'.callers[c].err

FailedFetchKeepsCache ==
    \A c \in Callers :
        FetchFailsStep(c) =>
            /\ backend'.token = backend.token
            /\ backend'.expiry = backend.expiry

\* C30: in every interleaving of Log calls on one backend at most one token
\* fetch is in progress, a goroutine that takes the lock after a successful
\* fetch of another one returns that token without fetching while its expiry
\* is more than a minute away, and a failed fetch changes neither the cached
\* token nor its expiry.
C30_OneFetchReuseAndKeep ==
    /\ []OneFetchAndReuse
    /\ [][FailedFetchKeepsCache]_vars

\* C30 witness: a goroutine returned the token another one fetched, without
\* fetching, and the fetch of a goroutine has failed with a token cached.
C30_Witness ==
    /\ \E c \in Callers : CheckedFreshFetchOfOther(c) /\ ReusedPrior(c)
    /\ \E c \in Callers :
          /\ backend.callers[c].pc = "done"
          /\ backend.callers[c].err
    /\ backend.token # ""

====
